---- MODULE Spec2Model ----
(***************************************************************************)
(* Usage-telemetry pipeline of CLIProxyAPI:                                *)
(*   - usageReporter  (internal/runtime/executor/usage_helpers.go)         *)
(*   - FilterSSEUsageMetadata and its correlation memory (same file)       *)
(*   - RequestStatistics (internal/usage, stored in database.go)           *)
(* Each subsystem has its own next-state relation and specification; the   *)
(* variables of the other subsystems stay at their initial values.         *)
(***************************************************************************)
EXTENDS Integers, Sequences, FiniteSets, TLC

VARIABLES
    \* ---- usageReporter (one reporter, several completion callers)
    once,           \* r.once: [done |-> BOOLEAN, m |-> holder of the Once mutex, 0 = free]
    callers,        \* per caller goroutine: position and arguments of its call
    published,      \* the records handed to usage.PublishRecord, in order
    winner,         \* arguments of the call whose closure sync.Once ran (history)
    returnedOps,    \* the firing operations that have returned (history)
    callsStarted,   \* number of calls invoked so far
    lastCall,       \* entry point and error argument of the last call invoked (history)
    noops,          \* error arguments of the trackFailure calls that returned at the nil checks
    \* ---- streaming usage filter
    stopChunkWithoutUsage,  \* the correlation memory (sync.Map): set of trace ids
    timers,                 \* pending time.AfterFunc expiry timers per trace id
    lastRun,                \* the last FilterSSEUsageMetadata call: input, output, memory per line
    staleTimers,            \* per trace id in the memory: pending timers started by calls
                            \* before the one that put it there (history)
    \* ---- statistics aggregator (memory mode, database.DB = nil)
    statisticsEnabled,  \* the statisticsEnabled atomic.Bool
    stats,              \* s.totalRequests, s.successCount, s.failureCount, s.totalTokens
    heap,               \* the maps and slices s and the returned snapshot refer to
    mu,                 \* s.mu: 0 when no writer holds it, else the recorder holding it
    recs,               \* per recording goroutine: position and record of its Record call
    snap,               \* the StatisticsSnapshot a reader holds (NoSnap when none)
    clock,              \* number of time.Now() readings so far
    hist,               \* Record calls that passed the enabled check, started and completed (history)
    \* ---- persistent store and LoggerPlugin
    requestLogEnabled,  \* the requestLogEnabled atomic.Bool
    DB,                 \* database.DB (NilDB until Init has opened a backend)
    dbOnce,             \* the sync.Once of database.Init: TRUE when done
    rows,               \* the request_logs rows inserted, in order
    handlers,           \* per goroutine: position, record and row of its HandleUsage call
    logHist,            \* HandleUsage calls made, the Init calls, the last inserts (history)
    \* ---- usage parsers
    parsed,             \* the last parser call: the parser, its input and its result
    \* ---- usage source
    resolved,           \* the last resolveUsageSource call: its arguments and its result
    \* ---- management requests on the persistent store
    trip,               \* the export payload the operator keeps, and the round trip made with it
    answer,             \* the request being answered: a traffic log query or a snapshot
    \* ---- concurrent calls of the streaming usage filter
    filterers,          \* per goroutine: position, line and output of its FilterSSEUsageMetadata call
    passes,             \* recordings made and renamable lines let through unrenamed (history)
    \* ---- the streamed export, write by write
    exported,           \* the last exportUsageStreamFromDB call: the rows read, the failure met and the text written
    \* ---- output capture of the usageReporter
    capture             \* r.outputPayload, r.respID, r.finishReasons, and the calls made so far with the last chunk (history)

reporterVars == <<once, callers, published, winner, returnedOps, callsStarted, lastCall, noops>>

filterVars == <<stopChunkWithoutUsage, timers, lastRun, staleTimers>>

statsVars == <<statisticsEnabled, stats, heap, mu, recs, snap, clock, hist>>

loggerVars == <<requestLogEnabled, DB, dbOnce, rows, handlers, logHist>>

parserVars == <<parsed>>

sourceVars == <<resolved>>

storeVars == <<trip, answer>>

raceVars == <<filterers, passes>>

exportVars == <<exported>>

captureVars == <<capture>>

nonReporterVars == <<filterVars, statsVars, loggerVars, parserVars, sourceVars, storeVars, raceVars, exportVars, captureVars>>
nonFilterVars == <<reporterVars, statsVars, loggerVars, parserVars, sourceVars, storeVars, raceVars, exportVars, captureVars>>
nonStatsVars == <<reporterVars, filterVars, loggerVars, parserVars, sourceVars, storeVars, raceVars, exportVars, captureVars>>
nonLoggerVars == <<reporterVars, filterVars, parserVars, sourceVars, storeVars, raceVars, exportVars, captureVars>>
nonParserVars == <<reporterVars, filterVars, statsVars, loggerVars, sourceVars, storeVars, raceVars, exportVars, captureVars>>
nonSourceVars == <<reporterVars, filterVars, statsVars, loggerVars, parserVars, storeVars, raceVars, exportVars, captureVars>>
nonStoreVars == <<reporterVars, filterVars, parserVars, sourceVars, raceVars, exportVars, captureVars>>
nonRaceVars == <<reporterVars, statsVars, loggerVars, parserVars, sourceVars, storeVars, exportVars, captureVars>>
nonExportVars == <<reporterVars, filterVars, statsVars, loggerVars, parserVars, sourceVars, storeVars, raceVars, captureVars>>
nonCaptureVars == <<reporterVars, filterVars, statsVars, loggerVars, parserVars, sourceVars, storeVars, raceVars, exportVars>>

vars == <<once, callers, published, winner, returnedOps, callsStarted, lastCall, noops,
          stopChunkWithoutUsage, timers, lastRun, staleTimers,
          statisticsEnabled, stats, heap, mu, recs, snap, clock, hist,
          requestLogEnabled, DB, dbOnce, rows, handlers, logHist, parsed, resolved,
          trip, answer,
          filterers, passes,
          exported,
          capture>>

(***************************************************************************)
(* Bounds                                                                  *)
(***************************************************************************)
NumCallers == 2
MaxCalls == 3
MaxLines == 2
MaxTimers == 2
NumRecorders == 2
MaxRecords == 4
MaxMutations == 1
MaxWrites == 3
NumHandlers == 1
MaxHandled == 2
MaxInits == 3
MaxImports == 1
MaxRows == 3
NumFilterers == 2
MaxPasses == 2
MaxChunks == 3

Callers == 1..NumCallers

(***************************************************************************)
(* usage.Detail values                                                     *)
(***************************************************************************)
MkDetail(i, o, r, c, t) ==
    [InputTokens |-> i, OutputTokens |-> o, ReasoningTokens |-> r,
     CachedTokens |-> c, TotalTokens |-> t]

ZeroDetail == MkDetail(0, 0, 0, 0, 0)

\* The details a caller may pass to publish: empty, a declared total, a total
\* to derive, and a detail with cached tokens only.
PublishDetails ==
    { ZeroDetail,
      MkDetail(1, 2, 0, 0, 0),
      MkDetail(1, 2, 1, 0, 9),
      MkDetail(0, 0, 0, 4, 0) }

\* publishWithOutcome, lines 169-174: derive TotalTokens when it is zero and
\* the sum of input, output and reasoning tokens is positive.
ReporterNormaliseBad(detail) == detail
ReporterNormalise(detail) ==
    IF detail.TotalTokens = 0
    THEN LET total == detail.InputTokens + detail.OutputTokens + detail.ReasoningTokens
         IN  IF total > 0 THEN [detail EXCEPT !.TotalTokens = total] ELSE detail
    ELSE detail

(***************************************************************************)
(* usageReporter                                                           *)
(***************************************************************************)
Ops == {"publish", "publishFailure", "trackFailure", "ensurePublished"}

\* errPtr of trackFailure: a nil pointer, a pointer to a nil error, a pointer
\* to a non-nil error.
ErrArgs == {"nilptr", "nilerr", "err"}

IdleCaller ==
    [pc |-> "idle", op |-> "none", arg |-> ZeroDetail, detail |-> ZeroDetail, failed |-> FALSE]

\* The (detail, failed) pair each entry point passes to publishWithOutcome.
\* publish: lines 148-150; publishFailure: 152-154; ensurePublished: 340-346.
OutcomeArgs(op, detail) ==
    CASE op = "publish"         -> [detail |-> detail, failed |-> FALSE]
      [] op = "publishFailure"  -> [detail |-> ZeroDetail, failed |-> TRUE]
      [] op = "trackFailure"    -> [detail |-> ZeroDetail, failed |-> TRUE]
      [] op = "ensurePublished" -> [detail |-> ZeroDetail, failed |-> FALSE]

\* trackFailure, lines 156-163: publishFailure is reached only through a
\* non-nil pointer to a non-nil error.
TrackFailurePublishesAlways(err) == TRUE
TrackFailurePublishes(err) == err = "err"

\* sync.Once.doSlow, reached from r.once.Do at line 175: with the mutex held,
\* the closure runs only if done is still unset.
DoSlowRunsFAlways(done) == TRUE
DoSlowRunsF(done) == ~done

\* The usage.Record built at lines 325-335 from the closure's captured
\* arguments (the identity fields are fixed per reporter and left out).
PublishedRecordOfZero(c) == [Failed |-> callers[c].failed, Detail |-> ZeroDetail]
PublishedRecordOf(c) == [Failed |-> callers[c].failed, Detail |-> callers[c].detail]

ReporterInit ==
    /\ once = [done |-> FALSE, m |-> 0]
    /\ callers = [c \in Callers |-> IdleCaller]
    /\ published = <<>>
    /\ winner = <<>>
    /\ returnedOps = {}
    /\ callsStarted = 0
    /\ lastCall = [op |-> "none", err |-> "none"]
    /\ noops = {}

\* A caller invokes one of the reporter's completion entry points. The nil
\* checks of trackFailure return at once; every other call normalises its
\* detail (lines 169-174) and arrives at r.once.Do.
Invoke(c) ==
    /\ callers[c].pc = "idle"
    /\ callsStarted < MaxCalls
    /\ callsStarted' = callsStarted + 1
    /\ \E op \in Ops, d \in PublishDetails, e \in ErrArgs :
         /\ op # "publish" => d = ZeroDetail
         /\ op # "trackFailure" => e = "err"
         /\ lastCall' = [op |-> op, err |-> IF op = "trackFailure" THEN e ELSE "none"]
         /\ IF op = "trackFailure" /\ ~TrackFailurePublishes(e)
            THEN /\ noops' = noops \cup {e}
                 /\ UNCHANGED callers
            ELSE /\ callers' = [callers EXCEPT ![c] =
                        [pc |-> "once", op |-> op,
                         arg |-> OutcomeArgs(op, d).detail,
                         detail |-> ReporterNormalise(OutcomeArgs(op, d).detail),
                         failed |-> OutcomeArgs(op, d).failed]]
                 /\ UNCHANGED noops
    /\ UNCHANGED <<once, published, winner, returnedOps>>
    /\ UNCHANGED nonReporterVars

\* sync.Once.Do fast path: done already set means return without the mutex.
OnceFast(c) ==
    /\ callers[c].pc = "once"
    /\ IF once.done
       THEN /\ callers' = [callers EXCEPT ![c] = IdleCaller]
            /\ returnedOps' = returnedOps \cup {callers[c].op}
       ELSE /\ callers' = [callers EXCEPT ![c].pc = "lock"]
            /\ UNCHANGED returnedOps
    /\ UNCHANGED <<once, published, winner, callsStarted, lastCall, noops>>
    /\ UNCHANGED nonReporterVars

\* sync.Once.doSlow: take the mutex, then decide whether the closure runs.
OnceLock(c) ==
    /\ callers[c].pc = "lock"
    /\ once.m = 0
    /\ once' = [once EXCEPT !.m = c]
    /\ IF DoSlowRunsF(once.done)
       THEN /\ callers' = [callers EXCEPT ![c].pc = "fn"]
            /\ winner' = Append(winner, [op |-> callers[c].op,
                                         failed |-> callers[c].failed,
                                         arg |-> callers[c].arg])
       ELSE /\ callers' = [callers EXCEPT ![c].pc = "unlock"]
            /\ UNCHANGED winner
    /\ UNCHANGED <<published, returnedOps, callsStarted, lastCall, noops>>
    /\ UNCHANGED nonReporterVars

\* The closure of publishWithOutcome, lines 175-336: usage.PublishRecord.
PublishRecord(c) ==
    /\ callers[c].pc = "fn"
    /\ published' = Append(published, PublishedRecordOf(c))
    /\ callers' = [callers EXCEPT ![c].pc = "unlock"]
    /\ UNCHANGED <<once, winner, returnedOps, callsStarted, lastCall, noops>>
    /\ UNCHANGED nonReporterVars

\* doSlow's deferred calls: done is stored, the mutex released, Do returns.
OnceUnlock(c) ==
    /\ callers[c].pc = "unlock"
    /\ once' = [done |-> TRUE, m |-> 0]
    /\ returnedOps' = returnedOps \cup {callers[c].op}
    /\ callers' = [callers EXCEPT ![c] = IdleCaller]
    /\ UNCHANGED <<published, winner, callsStarted, lastCall, noops>>
    /\ UNCHANGED nonReporterVars

ReporterNext ==
    \E c \in Callers :
        \/ Invoke(c)
        \/ OnceFast(c)
        \/ OnceLock(c)
        \/ PublishRecord(c)
        \/ OnceUnlock(c)

(***************************************************************************)
(* Streaming usage filter: SSE payloads                                    *)
(***************************************************************************)
\* A JSON field that is not present.
Absent == "absent"

\* The trace ids chunks carry; "" stands for a chunk without traceId.
TraceIds == {"a"}

\* A JSON document as the filter reads it:
\*   valid   gjson.ValidBytes
\*   traceId traceId ("" when missing)
\*   fr      candidates.0.finishReason          (AI Studio layout)
\*   rfr     response.candidates.0.finishReason (Antigravity layout)
\*   um      usageMetadata,    rum  response.usageMetadata
\*   cpa     cpaUsageMetadata, rcpa response.cpaUsageMetadata
\* A chunk has its candidates in one of the two layouts, so at most one of
\* fr and rfr is present; the shadow key cpaUsageMetadata is reserved and is
\* absent from upstream chunks.
MkDoc(valid, traceId, fr, rfr, um, rum) ==
    [valid |-> valid, traceId |-> traceId, fr |-> fr, rfr |-> rfr,
     um |-> um, rum |-> rum, cpa |-> Absent, rcpa |-> Absent]

\* Text that is not JSON, such as [DONE].
GarbageDoc == MkDoc(FALSE, "", Absent, Absent, Absent, Absent)

\* Finish reasons as <<fr, rfr>> and usage nodes as <<um, rum>>.
FinishShapes == { <<Absent, Absent>>, <<"STOP", Absent>>, <<Absent, "STOP">> }

UsageShapes == { <<Absent, Absent>>, <<"u", Absent>>, <<Absent, "v">> }

\* The documents chunks are drawn from: every combination of trace id, finish
\* reason and usage node in either layout, a chunk with an empty finish
\* reason, a chunk with usage in both places, and a non-JSON payload.
Docs ==
    { MkDoc(TRUE, t, f[1], f[2], u[1], u[2]) :
        t \in TraceIds \cup {""}, f \in FinishShapes, u \in UsageShapes }
    \cup { MkDoc(TRUE, "a", "", Absent, "u", Absent),
           MkDoc(TRUE, "", Absent, Absent, "u", "v"),
           GarbageDoc }

\* The documents that also arrive without a space after data: and as bare
\* JSON payloads.
BareDocs ==
    { MkDoc(TRUE, "a", Absent, Absent, "u", Absent),
      MkDoc(TRUE, "a", Absent, Absent, Absent, "v"),
      MkDoc(TRUE, "a", "STOP", Absent, Absent, Absent),
      MkDoc(TRUE, "a", "STOP", Absent, "u", Absent) }

\* One line of a payload (the payload is split at "\n"):
\*   blank  empty or white space only
\*   text   a non-data line such as "event: message" or ": ping"
\*   data   "data:" followed by gap spaces and the document
\*   json   a bare document without the data: prefix
BlankLine == [kind |-> "blank", gap |-> 0, doc |-> GarbageDoc]
TextLine == [kind |-> "text", gap |-> 0, doc |-> GarbageDoc]
DataLine(doc, gap) == [kind |-> "data", gap |-> gap, doc |-> doc]
JsonLine(doc) == [kind |-> "json", gap |-> 0, doc |-> doc]

Lines ==
    {BlankLine, TextLine}
    \cup { DataLine(d, 1) : d \in Docs }
    \cup { DataLine(d, 0) : d \in BareDocs }
    \cup { JsonLine(d) : d \in BareDocs }

RECURSIVE SeqsUpTo(_, _)
SeqsUpTo(S, n) ==
    IF n = 0 THEN {<<>>}
    ELSE LET shorter == SeqsUpTo(S, n - 1)
         IN  shorter \cup { Append(q, x) : q \in { r \in shorter : Len(r) = n - 1 }, x \in S }

Payloads == SeqsUpTo(Lines, MaxLines) \ {<<>>}

\* hasUsageMetadata, lines 756-767.
HasUsageMetadata(doc) ==
    /\ doc.valid
    /\ (doc.um # Absent \/ doc.rum # Absent)

\* The finish reason looked up at lines 714-717 and 773-776: the top-level
\* path, else the path under response.
FinishReason(doc) == IF doc.fr # Absent THEN doc.fr ELSE doc.rfr

\* isStopChunkWithoutUsage, lines 769-782.
IsStopChunkWithoutUsage(doc) ==
    /\ doc.valid
    /\ FinishReason(doc) # Absent
    /\ FinishReason(doc) # ""
    /\ ~HasUsageMetadata(doc)

\* The two renames of StripUsageMetadataFromJSON, lines 739-751: sjson sets
\* the shadow key to the raw usage value and deletes the usage key.
RenameTopDropped(doc) == [doc EXCEPT !.um = Absent]
RenameTop(doc) ==
    IF doc.um # Absent THEN [doc EXCEPT !.cpa = doc.um, !.um = Absent] ELSE doc

RenameResponse(doc) ==
    IF doc.rum # Absent THEN [doc EXCEPT !.rcpa = doc.rum, !.rum = Absent] ELSE doc

\* StripUsageMetadataFromJSON, lines 707-754: (cleaned document, changed).
StripUsageMetadataFromJSON(doc) ==
    IF ~doc.valid THEN [doc |-> doc, changed |-> FALSE]
    ELSE LET terminalReason == FinishReason(doc) # Absent /\ FinishReason(doc) # ""
         IN  IF terminalReason THEN [doc |-> doc, changed |-> FALSE]
             ELSE IF doc.um = Absent /\ doc.rum = Absent
                  THEN [doc |-> doc, changed |-> FALSE]
                  ELSE [doc |-> RenameResponse(RenameTop(doc)), changed |-> TRUE]

\* rememberStopWithoutUsage, line 636: the Store into the sync.Map.
RememberForgotten(mem, traceID) == mem
Remember(mem, traceID) == mem \cup {traceID}

\* stopChunkWithoutUsage.Delete at line 669.
ConsumeKept(mem, traceID) == mem
Consume(mem, traceID) == mem \ {traceID}

\* The line rebuilt at lines 678-685: the bytes before data:, "data:", one
\* space and the cleaned document.
RebuiltLine(line, cleaned) == DataLine(cleaned, 1)

\* A line the loop leaves through continue stays in lines as it was.
SkippedLineRebuilt(line) == IF line.kind = "data" THEN DataLine(line.doc, 1) ELSE line
SkippedLine(line) == line

\* One iteration of the loop at lines 651-687. st: the output lines so far,
\* the correlation memory, the memory after each line, the modified and
\* foundData flags and the trace ids remembered (one expiry timer each).
FilterStep(line, st) ==
    LET keep(mem, started) ==
            [st EXCEPT !.lines = Append(st.lines, SkippedLine(line)),
                       !.mem = mem,
                       !.mems = Append(st.mems, mem),
                       !.foundData = st.foundData \/ line.kind = "data",
                       !.started = started]
        traceID == line.doc.traceId
    IN  IF line.kind # "data" THEN keep(st.mem, st.started)
        ELSE IF IsStopChunkWithoutUsage(line.doc) /\ traceID # ""
        THEN keep(Remember(st.mem, traceID), Append(st.started, traceID))
        ELSE IF traceID # "" /\ traceID \in st.mem /\ HasUsageMetadata(line.doc)
        THEN keep(Consume(st.mem, traceID), st.started)
        ELSE LET stripped == StripUsageMetadataFromJSON(line.doc)
             IN  IF ~stripped.changed THEN keep(st.mem, st.started)
                 ELSE [st EXCEPT !.lines = Append(st.lines, RebuiltLine(line, stripped.doc)),
                                 !.mems = Append(st.mems, st.mem),
                                 !.foundData = TRUE,
                                 !.modified = TRUE]

RECURSIVE FilterLoop(_, _, _)
FilterLoop(payload, idx, st) ==
    IF idx > Len(payload) THEN st
    ELSE FilterLoop(payload, idx + 1, FilterStep(payload[idx], st))

\* bytes.TrimSpace(payload) at line 691: the payload without its leading and
\* trailing blank lines.
RECURSIVE TrimBlankLines(_)
TrimBlankLines(payload) ==
    IF payload = <<>> THEN payload
    ELSE IF Head(payload).kind = "blank" THEN TrimBlankLines(Tail(payload))
    ELSE IF payload[Len(payload)].kind = "blank"
         THEN TrimBlankLines(SubSeq(payload, 1, Len(payload) - 1))
    ELSE payload

\* The raw-JSON branch at lines 689-697. The trimmed payload is valid JSON
\* only if it is one bare document (documents spread over several lines are
\* not modelled).
RawJSONResult(payload) ==
    LET trimmed == TrimBlankLines(payload)
    IN  IF Len(trimmed) = 1 /\ trimmed[1].kind = "json"
        THEN LET stripped == StripUsageMetadataFromJSON(trimmed[1].doc)
             IN  IF stripped.changed THEN <<JsonLine(stripped.doc)>> ELSE payload
        ELSE payload

\* FilterSSEUsageMetadata, lines 643-701, run on payload with the correlation
\* memory mem: the returned payload, the memory afterwards, the memory after
\* each line and the trace ids for which an expiry timer was started.
FilterSSEUsageMetadata(payload, mem) ==
    LET st == FilterLoop(payload, 1,
                  [lines |-> <<>>, mem |-> mem, mems |-> <<>>,
                   modified |-> FALSE, foundData |-> FALSE, started |-> <<>>])
    IN  [result  |-> IF ~st.modified
                     THEN IF ~st.foundData THEN RawJSONResult(payload) ELSE payload
                     ELSE st.lines,
         mem     |-> st.mem,
         mems    |-> st.mems,
         started |-> st.started]

NoRun == [payload |-> <<>>, memBefore |-> {}, result |-> <<>>, mems |-> <<>>]

Count(q, x) == Cardinality({ i \in 1..Len(q) : q[i] = x })

FilterInit ==
    /\ stopChunkWithoutUsage = {}
    /\ timers = [t \in TraceIds |-> 0]
    /\ lastRun = NoRun
    /\ staleTimers = [t \in TraceIds |-> 0]

\* One call of FilterSSEUsageMetadata on the payload of a chunk.
FilterCallOn(payload) ==
    LET r == FilterSSEUsageMetadata(payload, stopChunkWithoutUsage)
    IN  /\ lastRun = NoRun
        /\ \A t \in TraceIds : timers[t] + Count(r.started, t) <= MaxTimers
        /\ stopChunkWithoutUsage' = r.mem
        /\ timers' = [t \in TraceIds |-> timers[t] + Count(r.started, t)]
        /\ lastRun' = [payload |-> payload, memBefore |-> stopChunkWithoutUsage,
                       result |-> r.result, mems |-> r.mems]
        /\ staleTimers' = [t \in TraceIds |->
                               IF t \notin r.mem THEN 0
                               ELSE IF t \notin stopChunkWithoutUsage
                                       \/ \E i \in 1..Len(r.mems) : t \notin r.mems[i]
                                    THEN timers[t]
                               ELSE staleTimers[t]]
        /\ UNCHANGED nonFilterVars

\* One call of FilterSSEUsageMetadata on a chunk received from upstream.
FilterCall == lastRun = NoRun /\ \E payload \in Payloads : FilterCallOn(payload)

\* One call of FilterSSEUsageMetadata on a chunk of one line.
FilterLine == lastRun = NoRun /\ \E line \in Lines : FilterCallOn(<<line>>)

\* The caller forwards the returned payload to the client.
Deliver ==
    /\ lastRun # NoRun
    /\ lastRun' = NoRun
    /\ UNCHANGED <<stopChunkWithoutUsage, timers, staleTimers>>
    /\ UNCHANGED nonFilterVars

\* An expiry timer that fires without deleting anything.
TimerFireLost(t) ==
    /\ timers[t] > 0
    /\ timers' = [timers EXCEPT ![t] = @ - 1]
    /\ UNCHANGED <<stopChunkWithoutUsage, lastRun, staleTimers>>
    /\ UNCHANGED nonFilterVars

\* An expiry timer started at line 637 fires and deletes its trace id. All
\* timers run for the same 10 minutes, so the one that fires is the oldest
\* pending one of its trace id.
TimerFire(t) ==
    /\ timers[t] > 0
    /\ timers' = [timers EXCEPT ![t] = @ - 1]
    /\ stopChunkWithoutUsage' = stopChunkWithoutUsage \ {t}
    /\ staleTimers' = [staleTimers EXCEPT ![t] = 0]
    /\ UNCHANGED lastRun
    /\ UNCHANGED nonFilterVars

FilterNext ==
    \/ FilterCall
    \/ Deliver
    \/ \E t \in TraceIds : TimerFire(t)

\* The filter fed one line at a time, with its timers.
ExpiryNext ==
    \/ FilterLine
    \/ Deliver
    \/ \E t \in TraceIds : TimerFire(t)

(***************************************************************************)
(* Streaming usage filter: concurrent calls                                *)
(***************************************************************************)
\* The goroutines (one per stream) that call FilterSSEUsageMetadata.
Filterers == 1..NumFilterers

\* The chunks of the streams that share trace id "a", one data line each.
RaceLines == { DataLine(d, 1) : d \in { x \in Docs : x.traceId = "a" } }

IdleFilterer == [pc |-> "idle", line |-> BlankLine, out |-> BlankLine]

RaceInit ==
    /\ filterers = [g \in Filterers |-> IdleFilterer]
    /\ passes = [recorded |-> 0, unrenamed |-> 0]

\* A call on a stop chunk without usage reaches line 663: the Store and the
\* AfterFunc of rememberStopWithoutUsage; the line is left as it was.
FilterRemember(g, line) ==
    LET traceID == line.doc.traceId
    IN  /\ filterers[g].pc = "idle"
        /\ IsStopChunkWithoutUsage(line.doc) /\ traceID # ""
        /\ timers[traceID] < MaxTimers
        /\ passes.recorded < MaxPasses
        /\ stopChunkWithoutUsage' = Remember(stopChunkWithoutUsage, traceID)
        /\ timers' = [timers EXCEPT ![traceID] = @ + 1]
        /\ filterers' = [filterers EXCEPT ![g] =
                             [pc |-> "done", line |-> line, out |-> SkippedLine(line)]]
        /\ passes' = [passes EXCEPT !.recorded = @ + 1]
        /\ UNCHANGED <<lastRun, staleTimers>>
        /\ UNCHANGED nonRaceVars

\* A call on any other line reaches line 668: the Load of the trace id. When
\* the entry is there and the line carries usage, the call goes on to the
\* Delete; otherwise lines 674-686 rename the usage field of the line.
FilterLoad(g, line) ==
    LET traceID == line.doc.traceId
        ok == traceID \in stopChunkWithoutUsage
        stripped == StripUsageMetadataFromJSON(line.doc)
    IN  /\ filterers[g].pc = "idle"
        /\ ~(IsStopChunkWithoutUsage(line.doc) /\ traceID # "")
        /\ filterers' = [filterers EXCEPT ![g] =
               IF traceID # "" /\ ok /\ HasUsageMetadata(line.doc)
               THEN [pc |-> "delete", line |-> line, out |-> line]
               ELSE [pc |-> "done", line |-> line,
                     out |-> IF stripped.changed THEN RebuiltLine(line, stripped.doc)
                             ELSE SkippedLine(line)]]
        /\ UNCHANGED <<stopChunkWithoutUsage, timers, lastRun, staleTimers, passes>>
        /\ UNCHANGED nonRaceVars

\* The Delete at line 669 and the continue: the line passes as it was.
FilterDelete(g) ==
    /\ filterers[g].pc = "delete"
    /\ passes.unrenamed < MaxPasses
    /\ stopChunkWithoutUsage' = Consume(stopChunkWithoutUsage, filterers[g].line.doc.traceId)
    /\ filterers' = [filterers EXCEPT ![g].pc = "done",
                                      ![g].out = SkippedLine(filterers[g].line)]
    /\ passes' = IF StripUsageMetadataFromJSON(filterers[g].line.doc).changed
                  THEN [passes EXCEPT !.unrenamed = @ + 1]
                  ELSE passes
    /\ UNCHANGED <<timers, lastRun, staleTimers>>
    /\ UNCHANGED nonRaceVars

\* The call returns its payload.
FilterReturn(g) ==
    /\ filterers[g].pc = "done"
    /\ filterers' = [filterers EXCEPT ![g] = IdleFilterer]
    /\ UNCHANGED <<stopChunkWithoutUsage, timers, lastRun, staleTimers, passes>>
    /\ UNCHANGED nonRaceVars

RaceNext ==
    \/ \E g \in Filterers, line \in RaceLines : FilterRemember(g, line)
    \/ \E g \in Filterers, line \in RaceLines : FilterLoad(g, line)
    \/ \E g \in Filterers : FilterDelete(g)
    \/ \E g \in Filterers : FilterReturn(g)
    \/ \E t \in TraceIds : TimerFire(t)

(***************************************************************************)
(* Statistics aggregator: values                                           *)
(***************************************************************************)
Recorders == 1..NumRecorders

\* time.Time values: calendar day and hour as Format and Hour give them, and
\* the instant in nanoseconds. ZeroTime is the zero time.Time.
MkTime(day, hour, ns) == [day |-> day, hour |-> hour, ns |-> ns]
ZeroTime == MkTime("0001-01-01", 0, 0)
T1 == MkTime("2026-11-02", 9, 1)
T2 == MkTime("2026-11-03", 14, 2)

\* time.Now(): the n-th reading of the clock.
Now(n) == MkTime("2026-11-03", 23, 100 + n)

\* normaliseDetail, lines 731-746.
NormaliseDetail(detail) ==
    LET sum3 == detail.InputTokens + detail.OutputTokens + detail.ReasoningTokens
        t1 == IF detail.TotalTokens = 0 THEN sum3 ELSE detail.TotalTokens
        t2 == IF t1 = 0 THEN sum3 + detail.CachedTokens ELSE t1
    IN  [detail EXCEPT !.TotalTokens = t2]

\* normaliseTokenStats without the derivation.
NormaliseTokenStatsKept(tokens) == tokens

\* normaliseTokenStats, lines 748-756.
NormaliseTokenStats(tokens) ==
    LET sum3 == tokens.InputTokens + tokens.OutputTokens + tokens.ReasoningTokens
        t1 == IF tokens.TotalTokens = 0 THEN sum3 ELSE tokens.TotalTokens
        t2 == IF t1 = 0 THEN sum3 + tokens.CachedTokens ELSE t1
    IN  [tokens EXCEPT !.TotalTokens = t2]

\* formatHour, lines 758-764: two decimal digits of the hour modulo 24.
Digits == <<"0", "1", "2", "3", "4", "5", "6", "7", "8", "9">>
FormatHour(hour) ==
    LET h == (IF hour < 0 THEN 0 ELSE hour) % 24
    IN  Digits[(h \div 10) + 1] \o Digits[(h % 10) + 1]

\* coreusage.Record as Record reads it.
MkRecord(apiKey, method, path, provider, model, source, authIndex, at, failed, detail) ==
    [APIKey |-> apiKey, Method |-> method, Path |-> path, Provider |-> provider,
     Model |-> model, Source |-> source, AuthIndex |-> authIndex,
     RequestedAt |-> at, Failed |-> failed, Detail |-> detail]

\* The records handed to Record: successes with a total to derive, a declared
\* total and cached tokens only, and a failure without tokens; one per
\* identity fallback.
UsageRecords ==
    { MkRecord("k1", "", "", "openai", "m1", "src1", "0", T1, FALSE, MkDetail(4, 6, 0, 0, 0)),
      MkRecord("k1", "POST", "/v1/chat", "openai", "m1", "src1", "0", T2, FALSE, MkDetail(5, 5, 0, 0, 20)),
      MkRecord("", "POST", "/v1/chat", "gemini", "", "src2", "1", ZeroTime, FALSE, MkDetail(0, 0, 0, 30, 0)),
      MkRecord("", "", "", "gemini", "m2", "", "", T1, TRUE, ZeroDetail) }

\* The statistics key with the provider tried before the method and path.
StatsKeyProviderFirst(record) ==
    IF record.APIKey # "" THEN record.APIKey
    ELSE IF record.Provider # "" THEN record.Provider
    ELSE IF record.Method # "" /\ record.Path # "" THEN record.Method \o " " \o record.Path
    ELSE "unknown"

\* The statistics key of Record, lines 414-423.
StatsKey(record) ==
    IF record.APIKey # "" THEN record.APIKey
    ELSE IF record.Method # "" /\ record.Path # "" THEN record.Method \o " " \o record.Path
    ELSE IF record.Provider # "" THEN record.Provider
    ELSE "unknown"

\* The model name of Record, lines 426-429.
ModelName(record) == IF record.Model = "" THEN "unknown" ELSE record.Model

\* The RequestDetail Record stores, lines 449-455.
MkRequestDetail(timestamp, source, authIndex, tokens, failed) ==
    [Timestamp |-> timestamp, Source |-> source, AuthIndex |-> authIndex,
     Tokens |-> tokens, Failed |-> failed]

\* Go maps as functions.
EmptyMap == [k \in {} |-> 0]
MapPut(f, k, v) == [x \in DOMAIN f \cup {k} |-> IF x = k THEN v ELSE f[x]]
MapAdd(f, k, n) == MapPut(f, k, (IF k \in DOMAIN f THEN f[k] ELSE 0) + n)

(***************************************************************************)
(* The heap: the maps and slices behind the store and behind a snapshot.   *)
(* A reference names its owner ("s" the store, "r" a returned snapshot),   *)
(* the kind of object and, for nested objects, the api and model it        *)
(* belongs to. A slice is a backing array and a length.                    *)
(***************************************************************************)
Ref(owner, kind, api, model) == <<owner, kind, api, model>>

ApisRef(owner) == Ref(owner, "apis", "", "")
ModelsRef(owner, api) == Ref(owner, "models", api, "")
DetailsRef(owner, api, model) == Ref(owner, "details", api, model)
BucketRef(owner, kind) == Ref(owner, kind, "", "")

Slice(arr, len) == [arr |-> arr, len |-> len]
SliceView(h, slice) == SubSeq(h[slice.arr], 1, slice.len)

HeapPut(h, ref, obj) == [x \in DOMAIN h \cup {ref} |-> IF x = ref THEN obj ELSE h[x]]

\* The value of an APIs / apis map: what is reachable from it.
ApisView(h, apisRef) ==
    [a \in DOMAIN h[apisRef] |->
        [TotalRequests |-> h[apisRef][a].TotalRequests,
         TotalTokens   |-> h[apisRef][a].TotalTokens,
         Models        |->
            [m \in DOMAIN h[h[apisRef][a].Models] |->
                [TotalRequests |-> h[h[apisRef][a].Models][m].TotalRequests,
                 TotalTokens   |-> h[h[apisRef][a].Models][m].TotalTokens,
                 Details       |-> SliceView(h, h[h[apisRef][a].Models][m].Details)]]]]

\* Everything the store holds, as a value.
StoreView(st, h) ==
    [totalRequests  |-> st.totalRequests,
     successCount   |-> st.successCount,
     failureCount   |-> st.failureCount,
     totalTokens    |-> st.totalTokens,
     apis           |-> ApisView(h, ApisRef("s")),
     requestsByDay  |-> h[BucketRef("s", "requestsByDay")],
     requestsByHour |-> h[BucketRef("s", "requestsByHour")],
     tokensByDay    |-> h[BucketRef("s", "tokensByDay")],
     tokensByHour   |-> h[BucketRef("s", "tokensByHour")]]

\* Everything a returned snapshot holds, as a value.
SnapshotView(sn, h) ==
    [TotalRequests  |-> sn.TotalRequests,
     SuccessCount   |-> sn.SuccessCount,
     FailureCount   |-> sn.FailureCount,
     TotalTokens    |-> sn.TotalTokens,
     APIs           |-> ApisView(h, sn.APIs),
     RequestsByDay  |-> h[sn.RequestsByDay],
     RequestsByHour |-> h[sn.RequestsByHour],
     TokensByDay    |-> h[sn.TokensByDay],
     TokensByHour   |-> h[sn.TokensByHour]]

\* NewRequestStatistics, lines 390-398.
EmptyHeap ==
    [r \in { ApisRef("s"), BucketRef("s", "requestsByDay"), BucketRef("s", "requestsByHour"),
             BucketRef("s", "tokensByDay"), BucketRef("s", "tokensByHour") } |-> EmptyMap]

EmptyStats == [totalRequests |-> 0, successCount |-> 0, failureCount |-> 0, totalTokens |-> 0]

\* updateAPIStats, lines 463-474, on the apiStats of api (created by the
\* caller when missing): the counters, the modelStats and the appended detail.
UpdateAPIStats(h, api, model, detail) ==
    LET apis == h[ApisRef("s")]
        models == h[ModelsRef("s", api)]
        had == model \in DOMAIN models
        old == IF had THEN models[model]
               ELSE [TotalRequests |-> 0, TotalTokens |-> 0,
                     Details |-> Slice(DetailsRef("s", api, model), 0)]
        arr == IF had THEN SliceView(h, old.Details) ELSE <<>>
        new == [TotalRequests |-> old.TotalRequests + 1,
                TotalTokens   |-> old.TotalTokens + detail.Tokens.TotalTokens,
                Details       |-> Slice(old.Details.arr, old.Details.len + 1)]
        h1 == HeapPut(h, ApisRef("s"),
                  [apis EXCEPT ![api].TotalRequests = @ + 1,
                               ![api].TotalTokens = @ + detail.Tokens.TotalTokens])
        h2 == HeapPut(h1, ModelsRef("s", api), MapPut(models, model, new))
    IN  HeapPut(h2, old.Details.arr, Append(arr, detail))

\* s.apis[api], created with an empty Models map when missing
\* (lines 444-448 and 653-659).
EnsureAPI(h, api) ==
    IF api \in DOMAIN h[ApisRef("s")] THEN h
    ELSE HeapPut(HeapPut(h, ModelsRef("s", api), EmptyMap),
                 ApisRef("s"),
                 MapPut(h[ApisRef("s")], api,
                        [TotalRequests |-> 0, TotalTokens |-> 0,
                         Models |-> ModelsRef("s", api)]))

\* The day and hour buckets, lines 457-460 and 704-707.
UpdateBuckets(h, dayKey, hourKey, totalTokens) ==
    LET b(kind) == BucketRef("s", kind)
    IN  [x \in DOMAIN h |->
            IF x = b("requestsByDay") THEN MapAdd(h[x], dayKey, 1)
            ELSE IF x = b("requestsByHour") THEN MapAdd(h[x], hourKey, 1)
            ELSE IF x = b("tokensByDay") THEN MapAdd(h[x], dayKey, totalTokens)
            ELSE IF x = b("tokensByHour") THEN MapAdd(h[x], hourKey, totalTokens)
            ELSE h[x]]

(***************************************************************************)
(* Statistics aggregator: Record                                           *)
(***************************************************************************)
\* The timestamp Record uses, lines 408-411.
RecordTimestamp(record, n) ==
    IF record.RequestedAt = ZeroTime THEN Now(n) ELSE record.RequestedAt

\* Record, line 436: the first update under the lock.
RecordCount(st) == [st EXCEPT !.totalRequests = @ + 1]

\* Record, lines 437-442: the remaining counters.
RecordOutcome(st, record) ==
    LET totalTokens == NormaliseDetail(record.Detail).TotalTokens
    IN  [st EXCEPT !.successCount = IF record.Failed THEN @ ELSE @ + 1,
                   !.failureCount = IF record.Failed THEN @ + 1 ELSE @,
                   !.totalTokens  = @ + totalTokens]

\* Record, lines 444-460: the per-identity rollup and the buckets.
RecordRollup(h, record, timestamp) ==
    LET detail == NormaliseDetail(record.Detail)
        requestDetail == MkRequestDetail(timestamp, record.Source, record.AuthIndex,
                                         detail, record.Failed)
        h1 == UpdateAPIStats(EnsureAPI(h, StatsKey(record)), StatsKey(record),
                             ModelName(record), requestDetail)
    IN  UpdateBuckets(h1, timestamp.day, timestamp.hour, detail.TotalTokens)

\* The zero coreusage.Record.
NoRecord == MkRecord("", "", "", "", "", "", "", ZeroTime, FALSE, ZeroDetail)

\* A goroutine outside Record.
IdleRecorder == [pc |-> "idle", record |-> NoRecord, timestamp |-> ZeroTime]

NoSnap == [none |-> TRUE]
NoMerge == [Added |-> 0, Skipped |-> 0]

\* The total a record is expected to contribute: the declared total, else the
\* sum of input, output and reasoning tokens, else that sum plus the cached
\* tokens.
ExpectedTotal(detail) ==
    IF detail.TotalTokens # 0 THEN detail.TotalTokens
    ELSE IF detail.InputTokens + detail.OutputTokens + detail.ReasoningTokens # 0
         THEN detail.InputTokens + detail.OutputTokens + detail.ReasoningTokens
    ELSE detail.CachedTokens

StatsInit ==
    /\ statisticsEnabled = TRUE
    /\ stats = EmptyStats
    /\ heap = EmptyHeap
    /\ mu = 0
    /\ recs = [r \in Recorders |-> IdleRecorder]
    /\ snap = NoSnap
    /\ clock = 0
    /\ hist = [started |-> 0, calls |-> 0, failures |-> 0, tokens |-> 0,
               seen |-> [calls |-> 0, failures |-> 0, tokens |-> 0],
               writes |-> 0, mutations |-> 0, merged |-> NoMerge]

\* SetStatisticsEnabled, line 301.
SetStatisticsEnabled(enabled) ==
    /\ snap = NoSnap
    /\ statisticsEnabled # enabled
    /\ statisticsEnabled' = enabled
    /\ UNCHANGED <<stats, heap, mu, recs, snap, clock, hist>>
    /\ UNCHANGED nonStatsVars

\* Record, lines 401-431: the enabled check and the values computed before the
\* lock is requested.
RecordBegin(r, record) ==
    /\ snap = NoSnap
    /\ recs[r].pc = "idle"
    /\ hist.started < MaxRecords
    /\ hist' = [hist EXCEPT !.started = @ + 1]
    /\ IF ~statisticsEnabled
          THEN UNCHANGED <<recs, clock>>
          ELSE /\ recs' = [recs EXCEPT ![r] = [pc |-> "lock", record |-> record,
                                               timestamp |-> RecordTimestamp(record, clock)]]
               /\ clock' = IF record.RequestedAt = ZeroTime THEN clock + 1 ELSE clock
    /\ UNCHANGED <<statisticsEnabled, stats, heap, mu, snap>>
    /\ UNCHANGED nonStatsVars

\* Record, lines 433-436: s.mu.Lock() and the request counter.
RecordLock(r) ==
    /\ snap = NoSnap
    /\ recs[r].pc = "lock"
    /\ mu = 0
    /\ mu' = r
    /\ stats' = RecordCount(stats)
    /\ recs' = [recs EXCEPT ![r].pc = "locked"]
    /\ UNCHANGED <<statisticsEnabled, heap, snap, clock, hist>>
    /\ UNCHANGED nonStatsVars

\* Record, lines 437-461: the other updates and the deferred s.mu.Unlock().
RecordCommit(r) ==
    /\ snap = NoSnap
    /\ recs[r].pc = "locked"
    /\ mu = r
    /\ stats' = RecordOutcome(stats, recs[r].record)
    /\ heap' = RecordRollup(heap, recs[r].record, recs[r].timestamp)
    /\ mu' = 0
    /\ recs' = [recs EXCEPT ![r] = IdleRecorder]
    /\ hist' = [hist EXCEPT !.calls = @ + 1,
                            !.failures = IF recs[r].record.Failed THEN @ + 1 ELSE @,
                            !.tokens = @ + ExpectedTotal(recs[r].record.Detail)]
    /\ UNCHANGED <<statisticsEnabled, snap, clock>>
    /\ UNCHANGED nonStatsVars

\* Record, lines 401-461, from call to return in one step.
Record(record) ==
    /\ mu = 0
    /\ hist.writes < MaxWrites
    /\ hist' = [hist EXCEPT !.writes = @ + 1]
    /\ IF ~statisticsEnabled
          THEN UNCHANGED <<stats, heap, clock>>
          ELSE /\ stats' = RecordOutcome(RecordCount(stats), record)
               /\ heap' = RecordRollup(heap, record, RecordTimestamp(record, clock))
               /\ clock' = IF record.RequestedAt = ZeroTime THEN clock + 1 ELSE clock
    /\ UNCHANGED <<statisticsEnabled, mu, recs, snap>>
    /\ UNCHANGED nonStatsVars

(***************************************************************************)
(* Statistics aggregator: Snapshot                                         *)
(***************************************************************************)
\* s.mu.RLock(), line 489: a reader gets the lock when no writer holds it.
SnapshotMayReadAnytime(m) == TRUE
SnapshotMayRead(m) == m = 0

\* copyMap, lines 527-533: the map the copy is written to.
CopyMapRefAliased(src) == src
CopyMapRef(src) == Ref("r", src[2], src[3], src[4])

\* copyMap, lines 527-533.
CopyMap(h, src) == CopyMapRef(src) :> h[src]

\* formatHourMap, lines 535-541. The keys of the store come from Hour(), so
\* no two of them format to the same string.
FormatHourMap(m) ==
    [k \in { FormatHour(x) : x \in DOMAIN m } |->
        m[CHOOSE x \in DOMAIN m : FormatHour(x) = k]]

\* Overlay: the heap h with the objects of objs written into it.
Overlay(h, objs) ==
    [x \in DOMAIN h \cup DOMAIN objs |-> IF x \in DOMAIN objs THEN objs[x] ELSE h[x]]

\* Snapshot, lines 497-516: result.APIs and what it refers to.
SnapshotAPIs(h) ==
    LET apis == h[ApisRef("s")]
        pairs == { <<a, m>> \in (DOMAIN apis) \X
                        UNION { DOMAIN h[apis[a].Models] : a \in DOMAIN apis } :
                        m \in DOMAIN h[apis[a].Models] }
        apisObj == ApisRef("r") :>
            [a \in DOMAIN apis |->
                [TotalRequests |-> apis[a].TotalRequests,
                 TotalTokens   |-> apis[a].TotalTokens,
                 Models        |-> ModelsRef("r", a)]]
        modelsObjs ==
            [x \in { ModelsRef("r", a) : a \in DOMAIN apis } |->
                [m \in DOMAIN h[ModelsRef("s", x[3])] |->
                    [TotalRequests |-> h[ModelsRef("s", x[3])][m].TotalRequests,
                     TotalTokens   |-> h[ModelsRef("s", x[3])][m].TotalTokens,
                     Details       |-> Slice(DetailsRef("r", x[3], m),
                                             h[ModelsRef("s", x[3])][m].Details.len)]]]
        detailObjs ==
            [x \in { DetailsRef("r", p[1], p[2]) : p \in pairs } |->
                SliceView(h, h[ModelsRef("s", x[3])][x[4]].Details)]
    IN  apisObj @@ modelsObjs @@ detailObjs

\* Snapshot, lines 484-525, in memory mode.
SnapshotResult(st, h) ==
    LET b(kind) == BucketRef("s", kind)
        objs == SnapshotAPIs(h)
                @@ CopyMap(h, b("requestsByDay"))
                @@ (BucketRef("r", "requestsByHour") :> FormatHourMap(h[b("requestsByHour")]))
                @@ CopyMap(h, b("tokensByDay"))
                @@ (BucketRef("r", "tokensByHour") :> FormatHourMap(h[b("tokensByHour")]))
    IN  [result |-> [TotalRequests  |-> st.totalRequests,
                     SuccessCount   |-> st.successCount,
                     FailureCount   |-> st.failureCount,
                     TotalTokens    |-> st.totalTokens,
                     APIs           |-> ApisRef("r"),
                     RequestsByDay  |-> CopyMapRef(b("requestsByDay")),
                     RequestsByHour |-> BucketRef("r", "requestsByHour"),
                     TokensByDay    |-> CopyMapRef(b("tokensByDay")),
                     TokensByHour   |-> BucketRef("r", "tokensByHour")],
         heap |-> Overlay(h, objs)]

\* Snapshot, lines 479-525, with database.DB nil.
Snapshot ==
    /\ snap = NoSnap
    /\ SnapshotMayRead(mu)
    /\ snap' = SnapshotResult(stats, heap).result
    /\ heap' = SnapshotResult(stats, heap).heap
    /\ hist' = [hist EXCEPT !.seen = [calls |-> hist.calls, failures |-> hist.failures,
                                      tokens |-> hist.tokens]]
    /\ UNCHANGED <<statisticsEnabled, stats, mu, recs, clock>>
    /\ UNCHANGED nonStatsVars

\* The caller drops the snapshot; what only the snapshot refers to is collected.
SnapshotReturn ==
    /\ snap # NoSnap
    /\ snap' = NoSnap
    /\ heap' = [x \in { y \in DOMAIN heap : y[1] # "r" } |-> heap[x]]
    /\ UNCHANGED <<statisticsEnabled, stats, mu, recs, clock, hist>>
    /\ UNCHANGED nonStatsVars

StatsNext ==
    \/ \E enabled \in BOOLEAN : SetStatisticsEnabled(enabled)
    \/ \E r \in Recorders : \E record \in UsageRecords : RecordBegin(r, record)
    \/ \E r \in Recorders : RecordLock(r)
    \/ \E r \in Recorders : RecordCommit(r)
    \/ Snapshot
    \/ SnapshotReturn

(***************************************************************************)
(* Statistics aggregator: MergeSnapshot                                    *)
(***************************************************************************)
\* strings.TrimSpace on the names that occur.
TrimSpace(s) ==
    CASE s = " "    -> ""
      [] s = " k1 " -> "k1"
      [] s = " k2 " -> "k2"
      [] s = " me@x " -> "me@x"
      [] s = " Vertex " -> "Vertex"
      [] OTHER      -> s

\* fmt.Sprintf with %t and %d.
FormatBool(b) == IF b THEN "true" ELSE "false"
FormatInt(n) == ToString(n)

\* detail.Timestamp.UTC().Format(time.RFC3339Nano): one string per instant.
FormatInstant(t) == "T" \o ToString(t.ns) \o "Z"

\* dedupKey, lines 710-727: the fields joined with "|".
DedupKey(apiName, modelName, detail) ==
    LET tokens == NormaliseTokenStats(detail.Tokens)
    IN  apiName \o "|" \o modelName \o "|" \o FormatInstant(detail.Timestamp)
        \o "|" \o detail.Source \o "|" \o detail.AuthIndex
        \o "|" \o FormatBool(detail.Failed)
        \o "|" \o FormatInt(tokens.InputTokens)
        \o "|" \o FormatInt(tokens.OutputTokens)
        \o "|" \o FormatInt(tokens.ReasoningTokens)
        \o "|" \o FormatInt(tokens.CachedTokens)
        \o "|" \o FormatInt(tokens.TotalTokens)

\* MergeSnapshot, lines 633-646: the keys of the details already stored.
SeenKeysNone(h) == {}
SeenKeys(h) ==
    LET apis == h[ApisRef("s")]
    IN  UNION { UNION { { DedupKey(a, m, SliceView(h, h[apis[a].Models][m].Details)[i]) :
                            i \in 1..h[apis[a].Models][m].Details.len } :
                        m \in DOMAIN h[apis[a].Models] } :
                a \in DOMAIN apis }

\* recordImported, lines 685-708.
RecordImported(st, h, apiName, modelName, detail) ==
    LET totalTokens == IF detail.Tokens.TotalTokens < 0 THEN 0 ELSE detail.Tokens.TotalTokens
        st1 == [st EXCEPT !.totalRequests = @ + 1,
                          !.failureCount = IF detail.Failed THEN @ + 1 ELSE @,
                          !.successCount = IF detail.Failed THEN @ ELSE @ + 1,
                          !.totalTokens = @ + totalTokens]
        h1 == UpdateAPIStats(h, apiName, modelName, detail)
    IN  [st |-> st1,
         h  |-> UpdateBuckets(h1, detail.Timestamp.day, detail.Timestamp.hour, totalTokens)]

\* A detail without a timestamp kept as it is.
ImportTimestampKept(detail, n) == detail.Timestamp

\* MergeSnapshot, lines 667-669: a detail without a timestamp gets the
\* current time, the n-th reading of the clock.
ImportTimestamp(detail, n) ==
    IF detail.Timestamp = ZeroTime THEN Now(n) ELSE detail.Timestamp

\* MergeSnapshot, lines 665-678: the details of one model, in order. acc is
\* the store, the heap, the seen keys, the clock and the result so far.
RECURSIVE MergeDetails(_, _, _, _, _)
MergeDetails(acc, apiName, modelName, details, i) ==
    IF i > Len(details) THEN acc
    ELSE LET tokens == NormaliseTokenStats(details[i].Tokens)
             zero == details[i].Timestamp = ZeroTime
             detail == [details[i] EXCEPT !.Tokens = tokens,
                                          !.Timestamp = ImportTimestamp(details[i], acc.clock)]
             clk == IF zero THEN acc.clock + 1 ELSE acc.clock
             key == DedupKey(apiName, modelName, detail)
             imported == RecordImported(acc.st, acc.h, apiName, modelName, detail)
             next == IF key \in acc.seen
                     THEN [acc EXCEPT !.clock = clk, !.result.Skipped = @ + 1]
                     ELSE [st |-> imported.st, h |-> imported.h,
                           seen |-> acc.seen \cup {key}, clock |-> clk,
                           result |-> [acc.result EXCEPT !.Added = @ + 1]]
         IN  MergeDetails(next, apiName, modelName, details, i + 1)

\* MergeSnapshot, lines 660-679: the models of one api of the snapshot, in
\* some order of the map iteration.
RECURSIVE MergeModels(_, _, _, _)
MergeModels(acc, apiName, models, todo) ==
    IF todo = {} THEN acc
    ELSE LET m == CHOOSE x \in todo : TRUE
             modelName == IF TrimSpace(m) = "" THEN "unknown" ELSE TrimSpace(m)
         IN  MergeModels(MergeDetails(acc, apiName, modelName, models[m].Details, 1),
                         apiName, models, todo \ {m})

\* MergeSnapshot, lines 648-680: the apis of the snapshot, in some order of
\* the map iteration. A blank name is skipped; the apiStats is created before
\* the details are looked at.
RECURSIVE MergeAPIs(_, _, _)
MergeAPIs(acc, apis, todo) ==
    IF todo = {} THEN acc
    ELSE LET a == CHOOSE x \in todo : TRUE
             apiName == TrimSpace(a)
             ensured == [acc EXCEPT !.h = EnsureAPI(acc.h, apiName)]
         IN  MergeAPIs(IF apiName = "" THEN acc
                       ELSE MergeModels(ensured, apiName, apis[a].Models,
                                        DOMAIN apis[a].Models),
                       apis, todo \ {a})

\* A StatisticsSnapshot as an import decodes it: only APIs is read.
MkImport(apiName, modelName, details) ==
    [APIs |-> (apiName :>
        [TotalRequests |-> Len(details), TotalTokens |-> 0,
         Models |-> (modelName :>
            [TotalRequests |-> Len(details), TotalTokens |-> 0, Details |-> details])])]

\* The snapshots handed to MergeSnapshot from outside: a new identity with a
\* nameless model and two details with a total to derive, which differ in
\* source and auth index, both holding a "|"; a padded known identity with
\* a detail that lacks a timestamp.
ImportSnapshots ==
    { MkImport("k2", "", << MkRequestDetail(T1, "team|eu", "7", MkDetail(3, 4, 0, 0, 0), FALSE),
                            MkRequestDetail(T1, "team", "eu|7", MkDetail(3, 4, 0, 0, 0), FALSE) >>),
      MkImport(" k1 ", "m1", << MkRequestDetail(ZeroTime, "src1", "0", MkDetail(1, 1, 0, 0, 2), TRUE) >>) }

\* MergeSnapshot, lines 624-683.
MergeSnapshotResult(st, h, clk, snapshot) ==
    MergeAPIs([st |-> st, h |-> h, seen |-> SeenKeys(h), clock |-> clk, result |-> NoMerge],
              snapshot.APIs, DOMAIN snapshot.APIs)

MergeSnapshot(snapshot) ==
    /\ mu = 0
    /\ hist.writes < MaxWrites
    /\ LET merged == MergeSnapshotResult(stats, heap, clock, snapshot)
       IN  /\ stats' = merged.st
           /\ heap' = merged.h
           /\ clock' = merged.clock
           /\ hist' = [hist EXCEPT !.writes = @ + 1, !.merged = merged.result]
    /\ UNCHANGED <<statisticsEnabled, mu, recs, snap>>
    /\ UNCHANGED nonStatsVars

(***************************************************************************)
(* The holder of a returned snapshot changes it.                           *)
(***************************************************************************)
\* The value written into a changed detail.
MutatedDetail == MkRequestDetail(T2, "caller", "9", MkDetail(9, 9, 9, 9, 99), TRUE)

\* The changes a holder can make to a StatisticsSnapshot sn: a counter, an
\* entry of a bucket map, an entry of APIs, an entry of a Models map, an
\* element of a Details slice.
SnapshotMutations(sn, h) ==
    { [kind |-> "counter", api |-> "", model |-> ""],
      [kind |-> "day", api |-> "", model |-> ""],
      [kind |-> "hour", api |-> "", model |-> ""] }
    \cup { [kind |-> "api", api |-> a, model |-> ""] : a \in DOMAIN h[sn.APIs] }
    \cup UNION { UNION { { [kind |-> k, api |-> a, model |-> m] :
                             k \in IF h[h[sn.APIs][a].Models][m].Details.len > 0
                                   THEN {"model", "detail"} ELSE {"model"} } :
                         m \in DOMAIN h[h[sn.APIs][a].Models] } :
                 a \in DOMAIN h[sn.APIs] }

\* The snapshot and the heap after the change mut.
MutateResult(sn, h, mut) ==
    LET modelsRef == h[sn.APIs][mut.api].Models
        slice == h[modelsRef][mut.model].Details
    IN  CASE mut.kind = "counter" ->
               [snap |-> [sn EXCEPT !.TotalRequests = @ + 100], heap |-> h]
          [] mut.kind = "day" ->
               [snap |-> sn,
                heap |-> HeapPut(h, sn.RequestsByDay, MapPut(h[sn.RequestsByDay], "2026-11-02", 99))]
          [] mut.kind = "hour" ->
               [snap |-> sn,
                heap |-> HeapPut(h, sn.TokensByHour, MapPut(h[sn.TokensByHour], "09", 99))]
          [] mut.kind = "api" ->
               [snap |-> sn,
                heap |-> HeapPut(h, sn.APIs, [h[sn.APIs] EXCEPT ![mut.api].TotalTokens = 99])]
          [] mut.kind = "model" ->
               [snap |-> sn,
                heap |-> HeapPut(h, modelsRef,
                                 [h[modelsRef] EXCEPT ![mut.model].TotalRequests = 99])]
          [] mut.kind = "detail" ->
               [snap |-> sn,
                heap |-> HeapPut(h, slice.arr, [h[slice.arr] EXCEPT ![1] = MutatedDetail])]

MutateSnapshot ==
    /\ snap # NoSnap
    /\ hist.mutations < MaxMutations
    /\ \E mut \in SnapshotMutations(snap, heap) :
           /\ snap' = MutateResult(snap, heap, mut).snap
           /\ heap' = MutateResult(snap, heap, mut).heap
    /\ hist' = [hist EXCEPT !.mutations = @ + 1]
    /\ UNCHANGED <<statisticsEnabled, stats, mu, recs, clock>>
    /\ UNCHANGED nonStatsVars

\* The holder of a returned snapshot hands it to MergeSnapshot.
MergeReturned ==
    /\ snap # NoSnap
    /\ MergeSnapshot(SnapshotView(snap, heap))

\* A record whose API key is white space only: Record keeps the key as it is.
BlankKeyRecord ==
    MkRecord(" ", "", "", "openai", "m1", "src1", "0", T2, FALSE, MkDetail(1, 1, 0, 0, 0))

\* The records of the snapshot scenario: a keyed one, one that needs every
\* fallback and one with a blank key.
SnapshotRecords ==
    { rec \in UsageRecords : rec.RequestedAt \in {T2, ZeroTime} } \cup { BlankKeyRecord }

SnapshotNext ==
    \/ \E record \in SnapshotRecords : Record(record)
    \/ \E snapshot \in ImportSnapshots : MergeSnapshot(snapshot)
    \/ MergeReturned
    \/ Snapshot
    \/ SnapshotReturn
    \/ MutateSnapshot

(***************************************************************************)
(* Statistics aggregator: records and imports                              *)
(***************************************************************************)
\* Details without a timestamp, as an import payload holds them.
ZeroStampDetails ==
    { MkRequestDetail(ZeroTime, "src1", "0", MkDetail(1, 1, 0, 0, 2), TRUE),
      MkRequestDetail(ZeroTime, "", "", ZeroDetail, FALSE) }

\* The snapshots handed to MergeSnapshot by imports: those above, each detail
\* without a timestamp alone, and a detail whose token counts are negative.
MergeImports ==
    ImportSnapshots
    \cup { MkImport("k1", "m1", <<detail>>) : detail \in ZeroStampDetails }
    \cup { MkImport("k1", "m1", << MkRequestDetail(T1, "src1", "0", MkDetail(-5, 0, 0, 0, -5), FALSE) >>) }

\* Record and MergeSnapshot calls in any order.
MergeNext ==
    \/ \E record \in UsageRecords : Record(record)
    \/ \E snapshot \in MergeImports : MergeSnapshot(snapshot)

(***************************************************************************)
(* Persistent store: database.Init and the request log                     *)
(***************************************************************************)
Handlers == 1..NumHandlers

\* database.DB before Init has set it.
NilDB == [dialect |-> "", path |-> ""]

\* database.Config.
MkConfig(driver, dsn, logDir) == [Driver |-> driver, DSN |-> dsn, LogDir |-> logDir]

\* The configurations the operator hands to Init: the three recognised
\* drivers in mixed case, an unknown driver and no driver at all.
Configs ==
    { MkConfig("MySQL", "user@tcp(db)/usage", ""),
      MkConfig("SQLite3", "", "logs"),
      MkConfig("postgres", "", ""),
      MkConfig("", "usage.db", "logs") }

\* The records handed to HandleUsage: a total to derive and a caller key, and
\* cached tokens only without a key or a timestamp.
HandledRecords ==
    { record \in UsageRecords :
        record.Detail \in {MkDetail(4, 6, 0, 0, 0), MkDetail(0, 0, 0, 30, 0)} }

\* strings.ToLower on the driver names above.
ToLower(s) ==
    CASE s = "MySQL" -> "mysql"
      [] s = "SQLite3" -> "sqlite3"
      [] s = "Gemini-CLI" -> "gemini-cli"
      [] s = "Vertex" -> "vertex"
      [] OTHER -> s

\* The SQLite file of Init, lines 38-47 and 51-59: the DSN, else cliproxy.db
\* in the log directory, else cliproxy.db in the working directory.
SqlitePath(cfg) ==
    IF cfg.DSN # "" THEN cfg.DSN
    ELSE IF cfg.LogDir # "" THEN cfg.LogDir \o "/cliproxy.db"
    ELSE "cliproxy.db"

\* The dialector chosen by the switch of Init, lines 35-60.
Dialector(cfg) ==
    CASE ToLower(cfg.Driver) = "mysql" -> [dialect |-> "mysql", path |-> cfg.DSN]
      [] ToLower(cfg.Driver) \in {"sqlite", "sqlite3"} ->
            [dialect |-> "sqlite", path |-> SqlitePath(cfg)]
      [] OTHER -> [dialect |-> "sqlite", path |-> SqlitePath(cfg)]

\* The error Init returns, lines 62-68 and 84-87: an open error is wrapped and
\* returned, a migration error is only logged.
InitError(opened, migrated) == IF opened THEN "nil" ELSE "failed to connect to database"

\* The zero database.RequestLog, with the fields logToDatabase fills.
NoRow ==
    [RequestID |-> "", Timestamp |-> ZeroTime, Method |-> "", Path |-> "", ClientIP |-> "",
     Model |-> "", Provider |-> "", InputTokens |-> 0, OutputTokens |-> 0, TotalTokens |-> 0,
     IsError |-> FALSE, ErrorMessage |-> "", AuthIndex |-> ""]

\* record.ClientIP: empty on the records that carry none.
ClientIP(record) == IF "ClientIP" \in DOMAIN record THEN record.ClientIP ELSE ""

\* The request id of logToDatabase, lines 267-275: the identifier is the
\* caller key, else the auth index, else the client address; the id is
\* fmt.Sprintf("%d-%s", timestamp.UnixNano(), hex(sha256(identifier)[:8])).
RequestID(timestamp, record) ==
    LET identifier == IF record.APIKey # "" THEN record.APIKey
                      ELSE IF record.AuthIndex # "" THEN record.AuthIndex
                      ELSE ClientIP(record)
        hashHex == CASE identifier = "k1" -> "6ab9f1eb8f7d3388"
                     [] identifier = " "  -> "36a9e7f1c95b82ff"
                     [] identifier = "0"  -> "5feceb66ffc86f38"
                     [] identifier = "1"  -> "6b86b273ff34fce1"
                     [] identifier = ""   -> "e3b0c44298fc1c14"
                     [] OTHER -> "0000000000000000"
    IN  FormatInt(timestamp.ns) \o "-" \o hashHex

\* The row logToDatabase builds, lines 239-293.
RequestLogOf(record, timestamp) ==
    LET detail == NormaliseDetail(record.Detail)
    IN  [RequestID    |-> RequestID(timestamp, record),
         Timestamp    |-> timestamp,
         Method       |-> record.Method,
         Path         |-> record.Path,
         StatusCode   |-> IF "StatusCode" \in DOMAIN record THEN record.StatusCode ELSE 0,
         ClientIP     |-> ClientIP(record),
         Model        |-> record.Model,
         Provider     |-> record.Provider,
         InputTokens  |-> detail.InputTokens,
         OutputTokens |-> detail.OutputTokens,
         TotalTokens  |-> detail.TotalTokens,
         IsError      |-> record.Failed,
         ErrorMessage |-> IF record.Failed THEN "Request failed" ELSE "",
         AuthIndex    |-> record.AuthIndex]

\* logToDatabase with the error of DB.Create passed on.
CreateErrorPanics(err) == IF err THEN "panic" ELSE "return"

\* logToDatabase, lines 294-297: what becomes of the error of DB.Create.
CreateError(err) == "return"

\* A goroutine outside HandleUsage.
IdleHandler == [pc |-> "idle", record |-> NoRecord, row |-> NoRow, callNo |-> 0,
                counted |-> FALSE]

LoggerInit ==
    /\ requestLogEnabled = FALSE
    /\ DB = NilDB
    /\ dbOnce = FALSE
    /\ rows = <<>>
    /\ handlers = [h \in Handlers |-> IdleHandler]
    /\ logHist = [handled |-> 0, inits |-> <<>>, failedAt |-> 0, persistedAt |-> 0]

\* database.Init, lines 30-88. A call after the first finds once done and
\* returns nil; the first one opens the dialector of the switch. The history
\* keeps of every call its argument, what it returned and whether it was the
\* one that ran the body of once.Do.
DatabaseInit(cfg, opened, migrated) ==
    /\ Len(logHist.inits) < MaxInits
    /\ IF dbOnce
          THEN /\ logHist' = [logHist EXCEPT
                                 !.inits = Append(@, [cfg |-> cfg, result |-> "nil", ran |-> FALSE])]
               /\ UNCHANGED DB
          ELSE /\ DB' = IF opened THEN Dialector(cfg) ELSE DB
               /\ logHist' = [logHist EXCEPT
                                 !.inits = Append(@, [cfg |-> cfg,
                                                      result |-> InitError(opened, migrated),
                                                      ran |-> TRUE])]
    /\ dbOnce' = TRUE
    /\ UNCHANGED <<requestLogEnabled, rows, handlers>>
    /\ UNCHANGED statsVars
    /\ UNCHANGED nonLoggerVars

\* SetRequestLogEnabled, line 232.
SetRequestLogEnabled(enabled) ==
    /\ requestLogEnabled # enabled
    /\ requestLogEnabled' = enabled
    /\ UNCHANGED <<DB, dbOnce, rows, handlers, logHist>>
    /\ UNCHANGED statsVars
    /\ UNCHANGED nonLoggerVars

\* HandleUsage, lines 213-219: the call and the first check.
HandleUsage(h, record) ==
    /\ handlers[h].pc = "idle"
    /\ logHist.handled < MaxHandled
    /\ logHist' = [logHist EXCEPT !.handled = @ + 1]
    /\ handlers' = [handlers EXCEPT ![h] =
                       IF ~statisticsEnabled THEN IdleHandler
                       ELSE [IdleHandler EXCEPT !.pc = "record", !.record = record,
                                                !.callNo = logHist.handled + 1]]
    /\ UNCHANGED <<requestLogEnabled, DB, dbOnce, rows>>
    /\ UNCHANGED statsVars
    /\ UNCHANGED nonLoggerVars

\* HandleUsage, lines 220-226: p.stats.Record (lines 401-461, with its own
\* enabled check), the request-log gate, and logToDatabase (lines 234-293) up
\* to the call of DB.Create.
HandleUsageRecord(h) ==
    LET record == handlers[h].record
        recorded == statisticsEnabled
        clock1 == IF recorded /\ record.RequestedAt = ZeroTime THEN clock + 1 ELSE clock
        logged == requestLogEnabled /\ DB # NilDB
    IN  /\ handlers[h].pc = "record"
        /\ mu = 0
        /\ IF recorded
              THEN /\ stats' = RecordOutcome(RecordCount(stats), record)
                   /\ heap' = RecordRollup(heap, record, RecordTimestamp(record, clock))
              ELSE UNCHANGED <<stats, heap>>
        /\ handlers' = [handlers EXCEPT ![h] =
                           IF logged
                              THEN [@ EXCEPT !.pc = "create", !.counted = recorded,
                                             !.row = RequestLogOf(record,
                                                        RecordTimestamp(record, clock1))]
                              ELSE IdleHandler]
        /\ clock' = IF logged /\ record.RequestedAt = ZeroTime THEN clock1 + 1 ELSE clock1
        /\ UNCHANGED <<requestLogEnabled, DB, dbOnce, rows, logHist>>
        /\ UNCHANGED <<statisticsEnabled, mu, recs, snap, hist>>
        /\ UNCHANGED nonLoggerVars

\* logToDatabase, lines 294-298: DB.Create returns, with or without an error,
\* and HandleUsage returns after it.
CreateReturn(h, err) ==
    /\ handlers[h].pc = "create"
    /\ rows' = IF err THEN rows ELSE Append(rows, handlers[h].row)
    /\ handlers' = [handlers EXCEPT ![h] =
                       IF CreateError(err) = "return" THEN IdleHandler
                       ELSE [@ EXCEPT !.pc = "panicked"]]
    /\ logHist' = [logHist EXCEPT
                      !.failedAt = IF err THEN handlers[h].callNo ELSE @,
                      !.persistedAt = IF err THEN @ ELSE handlers[h].callNo]
    /\ UNCHANGED <<requestLogEnabled, DB, dbOnce>>
    /\ UNCHANGED statsVars
    /\ UNCHANGED nonLoggerVars

\* ImportUsageStatistics in memory mode, management/usage.go lines 62-99: the
\* uploaded snapshot is merged into the store.
ImportUsageStatistics(snapshot) ==
    /\ DB = NilDB
    /\ hist.writes < MaxImports
    /\ MergeSnapshot(snapshot)

\* The server start: the one Init call of the process, with its configuration.
Startup(opened, migrated) ==
    /\ ~dbOnce
    /\ DatabaseInit(MkConfig("SQLite3", "", "logs"), opened, migrated)

LoggerNext ==
    \/ \E opened \in BOOLEAN, migrated \in BOOLEAN : Startup(opened, migrated)
    \/ \E enabled \in BOOLEAN : SetRequestLogEnabled(enabled)
    \/ \E enabled \in BOOLEAN : SetStatisticsEnabled(enabled)
    \/ \E h \in Handlers, record \in HandledRecords : HandleUsage(h, record)
    \/ \E h \in Handlers : HandleUsageRecord(h)
    \/ \E h \in Handlers, err \in BOOLEAN : CreateReturn(h, err)
    \/ \E snapshot \in ImportSnapshots : ImportUsageStatistics(snapshot)

DatabaseNext ==
    \E cfg \in Configs, opened \in BOOLEAN, migrated \in BOOLEAN :
        DatabaseInit(cfg, opened, migrated)

(***************************************************************************)
(* Usage parsers                                                           *)
(***************************************************************************)
\* A JSON document as gjson reads it: the object found at each node path
\* that exists, and in an object the integer at each field path that exists.
EmptyDoc == [p \in {} |-> EmptyMap]

\* result.Get(path).Exists() and result.Get(path).Int(): 0 when the path is
\* missing.
Exists(obj, path) == path \in DOMAIN obj
IntAt(obj, path) == IF path \in DOMAIN obj THEN obj[path] ELSE 0

\* The objects under usage and response.usage: the chat-completions and the
\* responses documents of the tests, one without a total, one holding both
\* spellings of every field with 0 under the first, and Claude documents with
\* both cache counters, the first 0 or not, and with the second only.
UsageObjects ==
    { ("prompt_tokens" :> 1) @@ ("completion_tokens" :> 2),
      ("prompt_tokens" :> 1) @@ ("completion_tokens" :> 2) @@ ("total_tokens" :> 3)
          @@ ("prompt_tokens_details.cached_tokens" :> 4)
          @@ ("completion_tokens_details.reasoning_tokens" :> 5),
      ("input_tokens" :> 10) @@ ("output_tokens" :> 20) @@ ("total_tokens" :> 30)
          @@ ("input_tokens_details.cached_tokens" :> 7)
          @@ ("output_tokens_details.reasoning_tokens" :> 9),
      ("prompt_tokens" :> 0) @@ ("input_tokens" :> 10)
          @@ ("completion_tokens" :> 0) @@ ("output_tokens" :> 20) @@ ("total_tokens" :> 30)
          @@ ("prompt_tokens_details.cached_tokens" :> 0)
          @@ ("input_tokens_details.cached_tokens" :> 7)
          @@ ("completion_tokens_details.reasoning_tokens" :> 0)
          @@ ("output_tokens_details.reasoning_tokens" :> 9),
      ("input_tokens" :> 3) @@ ("output_tokens" :> 4)
          @@ ("cache_read_input_tokens" :> 0) @@ ("cache_creation_input_tokens" :> 5),
      ("input_tokens" :> 3) @@ ("output_tokens" :> 4)
          @@ ("cache_read_input_tokens" :> 6) @@ ("cache_creation_input_tokens" :> 5),
      ("input_tokens" :> 3) @@ ("output_tokens" :> 4) @@ ("cache_creation_input_tokens" :> 5) }

\* The objects under the usageMetadata paths: without and with a total.
MetadataObjects ==
    { ("promptTokenCount" :> 1) @@ ("candidatesTokenCount" :> 2) @@ ("thoughtsTokenCount" :> 3),
      ("promptTokenCount" :> 0) @@ ("candidatesTokenCount" :> 5) @@ ("totalTokenCount" :> 9)
          @@ ("cachedContentTokenCount" :> 4) }

\* The documents handed to the parsers.
UsageDocs ==
    {EmptyDoc}
    \cup { path :> obj : path \in {"usage", "response.usage"}, obj \in UsageObjects }
    \cup UNION { [paths -> MetadataObjects] :
                    paths \in (SUBSET {"usageMetadata", "usage_metadata",
                                       "response.usageMetadata",
                                       "response.usage_metadata"}) \ {{}} }

\* A stream line: valid is what len(jsonPayload(line)) > 0 and
\* gjson.ValidBytes(payload) give, doc is the payload.
UsageLines ==
    { [valid |-> TRUE, doc |-> doc] : doc \in UsageDocs } \cup { [valid |-> FALSE, doc |-> EmptyDoc] }

\* The result of a parser: the detail and whether a usage node was found (the
\* parsers without a second result return the zero detail when none is).
Parsed(detail, ok) == [detail |-> detail, ok |-> ok]

\* parseCodexUsage, lines 416-433.
ParseCodexUsage(doc) ==
    IF ~Exists(doc, "response.usage") THEN Parsed(ZeroDetail, FALSE)
    ELSE LET usageNode == doc["response.usage"]
         IN  Parsed(MkDetail(IntAt(usageNode, "input_tokens"),
                             IntAt(usageNode, "output_tokens"),
                             IntAt(usageNode, "output_tokens_details.reasoning_tokens"),
                             IntAt(usageNode, "input_tokens_details.cached_tokens"),
                             IntAt(usageNode, "total_tokens")), TRUE)

\* parseOpenAIUsage, lines 435-468.
ParseOpenAIUsage(doc) ==
    IF ~Exists(doc, "usage") THEN Parsed(ZeroDetail, FALSE)
    ELSE LET usageNode == doc["usage"]
             first(a, b) == IF Exists(usageNode, a) THEN IntAt(usageNode, a) ELSE IntAt(usageNode, b)
         IN  Parsed(MkDetail(first("prompt_tokens", "input_tokens"),
                             first("completion_tokens", "output_tokens"),
                             first("completion_tokens_details.reasoning_tokens",
                                   "output_tokens_details.reasoning_tokens"),
                             first("prompt_tokens_details.cached_tokens",
                                   "input_tokens_details.cached_tokens"),
                             IntAt(usageNode, "total_tokens")), TRUE)

\* parseOpenAIStreamUsage, lines 470-491.
ParseOpenAIStreamUsage(line) ==
    IF ~line.valid \/ ~Exists(line.doc, "usage") THEN Parsed(ZeroDetail, FALSE)
    ELSE LET usageNode == line.doc["usage"]
         IN  Parsed(MkDetail(IntAt(usageNode, "prompt_tokens"),
                             IntAt(usageNode, "completion_tokens"),
                             IntAt(usageNode, "completion_tokens_details.reasoning_tokens"),
                             IntAt(usageNode, "prompt_tokens_details.cached_tokens"),
                             IntAt(usageNode, "total_tokens")), TRUE)

\* parseClaudeUsage, lines 493-509, and parseClaudeStreamUsage, lines 511-530,
\* on the usage node: a read counter of 0 is replaced by the creation counter.
ClaudeDetail(usageNode) ==
    LET read == IntAt(usageNode, "cache_read_input_tokens")
        cached == IF read = 0 THEN IntAt(usageNode, "cache_creation_input_tokens") ELSE read
        input == IntAt(usageNode, "input_tokens")
        output == IntAt(usageNode, "output_tokens")
    IN  MkDetail(input, output, 0, cached, input + output)

\* parseGeminiFamilyUsageDetail, lines 532-544.
ParseGeminiFamilyUsageDetail(node) ==
    LET input == IntAt(node, "promptTokenCount")
        output == IntAt(node, "candidatesTokenCount")
        reasoning == IntAt(node, "thoughtsTokenCount")
        total == IntAt(node, "totalTokenCount")
    IN  MkDetail(input, output, reasoning, IntAt(node, "cachedContentTokenCount"),
                 IF total = 0 THEN input + output + reasoning ELSE total)

\* The node lookup of the Gemini-family parsers: the first path of the chain
\* that exists; found is FALSE when none does.
RECURSIVE FirstNode(_, _)
FirstNode(doc, paths) ==
    IF paths = <<>> THEN [found |-> FALSE, node |-> EmptyMap]
    ELSE IF Exists(doc, Head(paths)) THEN [found |-> TRUE, node |-> doc[Head(paths)]]
    ELSE FirstNode(doc, Tail(paths))

\* The body shared by the Gemini-family parsers, lines 546-631.
GeminiFamily(valid, doc, paths) ==
    LET first == FirstNode(doc, paths)
    IN  IF ~valid \/ ~first.found THEN Parsed(ZeroDetail, FALSE)
        ELSE Parsed(ParseGeminiFamilyUsageDetail(first.node), TRUE)

\* The parsers that take a stream line.
StreamParsers ==
    {"parseOpenAIStreamUsage", "parseClaudeStreamUsage", "parseGeminiStreamUsage",
     "parseGeminiCLIStreamUsage", "parseAntigravityStreamUsage"}

\* The parser of that name applied to a line, or to its document.
ParserResult(parser, line) ==
    CASE parser = "parseCodexUsage" -> ParseCodexUsage(line.doc)
      [] parser = "parseOpenAIUsage" -> ParseOpenAIUsage(line.doc)
      [] parser = "parseOpenAIStreamUsage" -> ParseOpenAIStreamUsage(line)
      \* parseClaudeUsage, lines 493-509
      [] parser = "parseClaudeUsage" ->
        IF ~Exists(line.doc, "usage") THEN Parsed(ZeroDetail, FALSE)
        ELSE Parsed(ClaudeDetail(line.doc["usage"]), TRUE)
      \* parseClaudeStreamUsage, lines 511-530
      [] parser = "parseClaudeStreamUsage" ->
        IF ~line.valid \/ ~Exists(line.doc, "usage") THEN Parsed(ZeroDetail, FALSE)
        ELSE Parsed(ClaudeDetail(line.doc["usage"]), TRUE)
      \* parseGeminiCLIUsage, lines 546-556
      [] parser = "parseGeminiCLIUsage" ->
        GeminiFamily(TRUE, line.doc, <<"response.usageMetadata", "response.usage_metadata">>)
      \* parseGeminiUsage, lines 558-568
      [] parser = "parseGeminiUsage" ->
        GeminiFamily(TRUE, line.doc, <<"usageMetadata", "usage_metadata">>)
      \* parseGeminiStreamUsage, lines 570-583
      [] parser = "parseGeminiStreamUsage" ->
        GeminiFamily(line.valid, line.doc, <<"usageMetadata", "usage_metadata">>)
      \* parseGeminiCLIStreamUsage, lines 585-598
      [] parser = "parseGeminiCLIStreamUsage" ->
        GeminiFamily(line.valid, line.doc, <<"response.usageMetadata", "usage_metadata">>)
      \* parseAntigravityUsage, lines 600-613
      [] parser = "parseAntigravityUsage" ->
        GeminiFamily(TRUE, line.doc,
                     <<"response.usageMetadata", "usageMetadata", "usage_metadata">>)
      \* parseAntigravityStreamUsage, lines 615-631
      [] parser = "parseAntigravityStreamUsage" ->
        GeminiFamily(line.valid, line.doc,
                     <<"response.usageMetadata", "usageMetadata", "usage_metadata">>)

ParserInit ==
    parsed = [parser |-> "none", line |-> [valid |-> FALSE, doc |-> EmptyDoc],
              result |-> Parsed(ZeroDetail, FALSE)]

\* One call of a parser: a stream parser on a line, a document parser on a
\* valid document.
ParseUsage(parser, line) ==
    /\ parser \notin StreamParsers => line.valid
    /\ parsed' = [parser |-> parser, line |-> line, result |-> ParserResult(parser, line)]
    /\ UNCHANGED nonParserVars

ParserNext ==
    \E line \in UsageLines :
        \E parser \in StreamParsers \cup
                       {"parseCodexUsage", "parseOpenAIUsage", "parseClaudeUsage",
                        "parseGeminiCLIUsage", "parseGeminiUsage", "parseAntigravityUsage"} :
            ParseUsage(parser, line)

\* Record on its own, lines 401-461, with records for every identity
\* fallback: the records above and one with a method but neither path nor
\* provider.
IdentityNext ==
    \/ \E enabled \in BOOLEAN : SetStatisticsEnabled(enabled)
    \/ \E record \in UsageRecords \cup
              { MkRecord("", "GET", "", "", "m2", "src5", "", T1, TRUE, ZeroDetail) } :
          Record(record)

(***************************************************************************)
(* Usage source: resolveUsageSource                                        *)
(***************************************************************************)
\* util.AnonymizeString: the empty string for the empty string, else the
\* first 16 hexadecimal digits of the SHA-256 of the input.
AnonymizeString(s) ==
    CASE s = ""   -> ""
      [] s = "k1" -> "6ab9f1eb8f7d3388"
      [] s = "k2" -> "015f7e6bc5aeaf48"
      [] s = "k3" -> "2f5052c9fd15b19a"
      [] OTHER    -> "0000000000000000"

\* The auths resolveUsageSource is called on. nil: the pointer is nil.
\* project_id, project and email are the entries of Metadata, Absent for a
\* missing or non-string one; api_key is Attributes["api_key"], "" when
\* missing. account is the pair AccountInfo returns: no account, an API key,
\* or an OAuth account whose value may carry spaces around it.
Auths ==
    { [nil |-> FALSE, Provider |-> p, ID |-> id, project_id |-> pid, project |-> pr,
       account |-> acc, email |-> em, api_key |-> key] :
        p \in {"Gemini-CLI", " Vertex ", "claude"}, id \in {" ", "user-123"},
        pid \in {Absent, " ", "p1"}, pr \in {Absent, "p2"},
        acc \in {<<"", "">>, <<"api_key", "k3">>, <<"oauth", " me@x ">>},
        em \in {Absent, " ", "e@x"}, key \in {"", " ", " k2 "} }
    \cup { [nil |-> TRUE, Provider |-> "", ID |-> "", project_id |-> Absent,
            project |-> Absent, account |-> <<"", "">>, email |-> Absent, api_key |-> ""] }

\* The subject with project tried before project_id.
SubjectIDProjectFirst(auth) ==
    LET provider == ToLower(TrimSpace(auth.Provider))
    IN  IF provider = "gemini-cli" THEN TrimSpace(auth.ID)
        ELSE IF provider = "vertex"
        THEN IF auth.project # Absent /\ TrimSpace(auth.project) # ""
             THEN TrimSpace(auth.project)
             ELSE IF auth.project_id # Absent THEN TrimSpace(auth.project_id) ELSE ""
        ELSE ""

\* resolveUsageSource, lines 371-389: the auth ID of a gemini-cli auth, the
\* project_id and then the project of a vertex auth; "" when there is none.
SubjectID(auth) ==
    LET provider == ToLower(TrimSpace(auth.Provider))
    IN  IF provider = "gemini-cli" THEN TrimSpace(auth.ID)
        ELSE IF provider = "vertex"
        THEN IF auth.project_id # Absent /\ TrimSpace(auth.project_id) # ""
             THEN TrimSpace(auth.project_id)
             ELSE IF auth.project # Absent THEN TrimSpace(auth.project) ELSE ""
        ELSE ""

\* The caller's key returned as it came.
ContextSourceRaw(ctxAPIKey) == TrimSpace(ctxAPIKey)

\* resolveUsageSource, lines 410-413: the source taken from the caller's key.
ContextSource(ctxAPIKey) ==
    IF TrimSpace(ctxAPIKey) # "" THEN AnonymizeString(TrimSpace(ctxAPIKey)) ELSE ""

\* resolveUsageSource, lines 369-414.
ResolveUsageSource(auth, ctxAPIKey) ==
    IF auth.nil THEN ContextSource(ctxAPIKey)
    ELSE IF SubjectID(auth) # "" THEN SubjectID(auth)
    ELSE IF auth.account[2] # ""
         THEN IF auth.account[1] = "api_key" THEN AnonymizeString(auth.account[2])
              ELSE TrimSpace(auth.account[2])
    ELSE IF auth.email # Absent /\ TrimSpace(auth.email) # "" THEN TrimSpace(auth.email)
    ELSE IF TrimSpace(auth.api_key) # "" THEN AnonymizeString(TrimSpace(auth.api_key))
    ELSE ContextSource(ctxAPIKey)

SourceInit ==
    resolved = [called |-> FALSE, auth |-> CHOOSE a \in Auths : a.nil, ctxAPIKey |-> "",
                source |-> ""]

\* newUsageReporter, lines 40-46: the reporter's one call of
\* resolveUsageSource.
ResolveCall(auth, ctxAPIKey) ==
    /\ ~resolved.called
    /\ resolved' = [called |-> TRUE, auth |-> auth, ctxAPIKey |-> ctxAPIKey,
                    source |-> ResolveUsageSource(auth, ctxAPIKey)]
    /\ UNCHANGED nonSourceVars

SourceNext ==
    \E auth \in Auths : \E ctxAPIKey \in {"", " ", " k1 "} : ResolveCall(auth, ctxAPIKey)

(***************************************************************************)
(* Persistent store: export, import, snapshot and traffic log              *)
(***************************************************************************)
\* A record as UsageRecords has them, with its StatusCode.
WithStatus(record, statusCode) == [x \in DOMAIN record \cup {"StatusCode"} |->
                                      IF x = "StatusCode" THEN statusCode ELSE record[x]]

\* The records handed to HandleUsage while the store is in use: a success
\* without auth index and a later failure of auth index a1.
StoreRecords ==
    { WithStatus(MkRecord("k1", "", "", "openai", "m1", "src1", "", T1, FALSE, MkDetail(4, 6, 0, 0, 0)), 200),
      WithStatus(MkRecord("k1", "", "", "gemini", "m2", "src1", "a1", T2, TRUE, ZeroDetail), 500) }

\* The binary collation of the names that occur in auth_index and model.
StringRank(s) ==
    CASE s = ""        -> 0
      [] s = "a1"      -> 1
      [] s = "m1"      -> 2
      [] s = "m2"      -> 3
      [] s = "unknown" -> 4
      [] OTHER         -> 5

\* ORDER BY: the row numbers in ids as a sequence ascending in key, a tuple
\* of numbers per row compared place by place.
RECURSIVE OrderBy(_, _)
OrderBy(ids, key) ==
    IF ids = {} THEN <<>>
    ELSE LET Before(a, b) == \E k \in DOMAIN a : a[k] < b[k] /\ \A l \in 1..(k - 1) : a[l] = b[l]
             first == CHOOSE i \in ids : \A j \in ids \ {i} : Before(key[i], key[j])
         IN  <<first>> \o OrderBy(ids \ {first}, key)

\* The totals query of exportUsageStreamFromDB, lines 115-126, and of
\* snapshotFromDB, lines 557-563.
TotalsOf(rs) ==
    LET RECURSIVE Sum(_)
        Sum(i) == IF i = 0 THEN 0 ELSE rs[i].TotalTokens + Sum(i - 1)
        failures == Cardinality({ i \in 1..Len(rs) : rs[i].IsError })
    IN  [total_requests |-> Len(rs), success_count |-> Len(rs) - failures,
         failure_count |-> failures, total_tokens |-> Sum(Len(rs))]

\* One iteration of the loop of exportUsageStreamFromDB, lines 211-266: apis
\* is the text written so far, as the sequence of its api objects, each with
\* the sequence of its model objects. A new api object is opened when the
\* name differs from the current one, a new model object likewise.
ExportRow(apis, r) ==
    LET apiName == IF r.AuthIndex = "" THEN "unknown" ELSE r.AuthIndex
        modelName == IF r.Model = "" THEN "unknown" ELSE r.Model
        currentAPI == IF apis = <<>> THEN "" ELSE apis[Len(apis)].name
        opened == IF apiName # currentAPI
                  THEN Append(apis, [name |-> apiName, models |-> <<>>,
                                     total_requests |-> 0, total_tokens |-> 0])
                  ELSE apis
        api == opened[Len(opened)]
        currentModel == IF api.models = <<>> THEN "" ELSE api.models[Len(api.models)].name
        models == IF modelName # currentModel
                  THEN Append(api.models, [name |-> modelName, details |-> <<>>,
                                           total_requests |-> 0, total_tokens |-> 0])
                  ELSE api.models
        detail == MkRequestDetail(r.Timestamp, r.Provider, r.AuthIndex,
                                  MkDetail(r.InputTokens, r.OutputTokens, 0, 0, r.TotalTokens),
                                  r.IsError)
        model == [models[Len(models)] EXCEPT !.details = Append(@, detail),
                                             !.total_requests = @ + 1,
                                             !.total_tokens = @ + r.TotalTokens]
    IN  [opened EXCEPT ![Len(opened)] =
            [api EXCEPT !.models = [models EXCEPT ![Len(models)] = model],
                        !.total_requests = @ + 1,
                        !.total_tokens = @ + r.TotalTokens]]

\* exportUsageStreamFromDB, lines 103-279: the payload written for the rows
\* rs, read in the order of auth_index, model and timestamp (rows equal in
\* all three in the order of their insertion).
ExportUsageStreamFromDB(rs) ==
    LET key == [i \in 1..Len(rs) |->
                   <<StringRank(rs[i].AuthIndex), StringRank(rs[i].Model), rs[i].Timestamp.ns, i>>]
        order == OrderBy(1..Len(rs), key)
        RECURSIVE Loop(_)
        Loop(n) == IF n = 0 THEN <<>> ELSE ExportRow(Loop(n - 1), rs[order[n]])
    IN  [usage |-> TotalsOf(rs), apis |-> Loop(Len(rs))]

\* The object with the members objs read into a Go map by encoding/json: one
\* entry per name, taken from the last member of that name.
DecodeObject(objs) ==
    [n \in { objs[i].name : i \in 1..Len(objs) } |->
        objs[CHOOSE i \in 1..Len(objs) :
                 /\ objs[i].name = n
                 /\ \A j \in (i + 1)..Len(objs) : objs[j].name # n]]

\* importUsageSnapshotToDB, lines 287-307: the rows built from the decoded
\* payload, one sequence per api and model (Go ranges over the two maps in
\* no fixed order); now is the reading of the clock for a detail without
\* timestamp.
ImportedRows(payload, now) ==
    LET apis == DecodeObject(payload.apis)
        rowOf(apiName, modelName, detail) ==
            [RequestID    |-> "",
             Timestamp    |-> IF detail.Timestamp = ZeroTime THEN now ELSE detail.Timestamp,
             Method       |-> "",
             Path         |-> "",
             ClientIP     |-> "",
             StatusCode   |-> 0,
             Model        |-> modelName,
             Provider     |-> detail.Source,
             InputTokens  |-> detail.Tokens.InputTokens,
             OutputTokens |-> detail.Tokens.OutputTokens,
             TotalTokens  |-> detail.Tokens.TotalTokens,
             IsError      |-> detail.Failed,
             ErrorMessage |-> "",
             AuthIndex    |-> IF detail.AuthIndex # "" THEN detail.AuthIndex ELSE apiName]
        groups == UNION { { <<a, m>> : m \in DOMAIN DecodeObject(apis[a].models) } :
                          a \in DOMAIN apis }
    IN  [g \in groups |->
            LET details == DecodeObject(apis[g[1]].models)[g[2]].details
            IN  [i \in 1..Len(details) |-> rowOf(g[1], g[2], details[i])]]

RECURSIVE Flatten(_)
Flatten(seqs) == IF seqs = <<>> THEN <<>> ELSE Head(seqs) \o Flatten(Tail(seqs))

\* snapshotFromDB, lines 543-615. The groups of the GROUP BY query come in no
\* fixed order: blankLast says whether the groups without auth index come
\* after those of the auth index "unknown", which have the same apiName.
SnapshotFromDB(rs, blankLast) ==
    LET totals == TotalsOf(rs)
        groups == { <<rs[i].AuthIndex, rs[i].Model>> : i \in 1..Len(rs) }
        apiNameOf(g) == IF g[1] = "" THEN "unknown" ELSE g[1]
        members(g) == { i \in 1..Len(rs) : rs[i].AuthIndex = g[1] /\ rs[i].Model = g[2] }
        sumOf(S) == TotalsOf([i \in 1..Cardinality(S) |->
                                rs[OrderBy(S, [x \in S |-> <<x>>])[i]]])
        forAPI(a) == { g \in groups : apiNameOf(g) = a }
        lastFor(a, m) ==
            LET same == { g \in forAPI(a) : g[2] = m }
            IN  IF Cardinality(same) = 1 THEN CHOOSE g \in same : TRUE
                ELSE IF blankLast THEN <<"", m>> ELSE <<"unknown", m>>
    IN  [TotalRequests |-> totals.total_requests,
         SuccessCount |-> totals.success_count,
         FailureCount |-> totals.failure_count,
         TotalTokens |-> totals.total_tokens,
         APIs |-> [a \in { apiNameOf(g) : g \in groups } |->
                     [TotalRequests |-> Cardinality(UNION { members(g) : g \in forAPI(a) }),
                      TotalTokens |-> sumOf(UNION { members(g) : g \in forAPI(a) }).total_tokens,
                      Models |-> [m \in { g[2] : g \in forAPI(a) } |->
                                    [TotalRequests |-> Cardinality(members(lastFor(a, m))),
                                     TotalTokens |-> sumOf(members(lastFor(a, m))).total_tokens,
                                     Details |-> <<>>]]]],
         RequestsByDay |-> EmptyMap, RequestsByHour |-> EmptyMap,
         TokensByDay |-> EmptyMap, TokensByHour |-> EmptyMap]

\* strconv.Atoi on the query values that occur.
Atoi(s) ==
    CASE s = "0"   -> [ok |-> TRUE, n |-> 0]
      [] s = "1"   -> [ok |-> TRUE, n |-> 1]
      [] s = "2"   -> [ok |-> TRUE, n |-> 2]
      [] s = "-1"  -> [ok |-> TRUE, n |-> -1]
      [] s = "101" -> [ok |-> TRUE, n |-> 101]
      [] s = "200" -> [ok |-> TRUE, n |-> 200]
      [] s = "500" -> [ok |-> TRUE, n |-> 500]
      [] OTHER     -> [ok |-> FALSE, n |-> 0]

\* The requests made to GetTrafficLogs: the query values page, size, model
\* and status, "" for one that is not given.
TrafficQueries ==
    [page : {"", "2", "0"}, size : {"", "1", "101"},
     model : {"", "m1"}, status : {"", "200", "abc"}]

\* The query with any positive size accepted.
TrafficQueryUncapped(q, rs) ==
    LET p == Atoi(q.page)
        s == Atoi(q.size)
        code == Atoi(q.status)
    IN  [page |-> IF p.ok /\ p.n > 0 THEN p.n ELSE 1,
         size |-> IF s.ok /\ s.n > 0 THEN s.n ELSE 20,
         ids  |-> { i \in 1..Len(rs) :
                      /\ q.model # "" => rs[i].Model = q.model
                      /\ q.status # "" /\ code.ok => rs[i].StatusCode = code.n }]

\* GetTrafficLogs, lines 343-363: page, size and the rows the query selects.
TrafficQuery(q, rs) ==
    LET p == Atoi(q.page)
        s == Atoi(q.size)
        code == Atoi(q.status)
    IN  [page |-> IF p.ok /\ p.n > 0 THEN p.n ELSE 1,
         size |-> IF s.ok /\ s.n > 0 /\ s.n <= 100 THEN s.n ELSE 20,
         ids  |-> { i \in 1..Len(rs) :
                      /\ q.model # "" => rs[i].Model = q.model
                      /\ q.status # "" /\ code.ok => rs[i].StatusCode = code.n }]

\* GetTrafficLogs, lines 371-376: the page fetched with
\* Order("timestamp DESC, id DESC").Limit(size).Offset((page-1)*size); the id
\* of a row is its number.
TrafficPage(q, rs) ==
    LET tq == TrafficQuery(q, rs)
        sorted == OrderBy(tq.ids, [i \in tq.ids |-> <<0 - rs[i].Timestamp.ns, 0 - i>>])
        offset == (tq.page - 1) * tq.size
        last == IF offset + tq.size < Len(sorted) THEN offset + tq.size ELSE Len(sorted)
    IN  [i \in 1..(IF last > offset THEN last - offset ELSE 0) |->
            [id |-> sorted[offset + i], row |-> rs[sorted[offset + i]]]]

NoAnswer == [op |-> "none"]

NoTrip == [phase |-> "none", payload |-> [usage |-> TotalsOf(<<>>), apis |-> <<>>],
           first |-> TotalsOf(<<>>), added |-> 0, skipped |-> 0]

StoreInit ==
    /\ answer = NoAnswer
    /\ trip = NoTrip

\* LoggerPlugin.HandleUsage, lines 213-227, from call to return with
\* statistics enabled: Record counts the record in memory, and logToDatabase
\* inserts its row when request logging is on and the store is open.
StoreHandleUsage(record) ==
    /\ answer.op \in {"none", "count"}
    /\ trip.phase = "none"
    /\ statisticsEnabled
    /\ stats.totalRequests < MaxRows
    /\ stats' = RecordOutcome(RecordCount(stats), record)
    /\ heap' = RecordRollup(heap, record, RecordTimestamp(record, clock))
    /\ rows' = IF requestLogEnabled /\ DB # NilDB
               THEN Append(rows, RequestLogOf(record, RecordTimestamp(record, clock)))
               ELSE rows
    /\ UNCHANGED <<statisticsEnabled, mu, recs, snap, clock, hist>>
    /\ UNCHANGED <<requestLogEnabled, DB, dbOnce, handlers, logHist>>
    /\ UNCHANGED <<nonStoreVars, storeVars>>

\* ExportUsageStatistics with the store open, management/usage.go lines
\* 40-48: the operator keeps the payload. An export after the payload of
\* the first was imported into the emptied store ends the round trip.
ExportUsageStatistics ==
    /\ DB # NilDB
    /\ answer.op = "none"
    /\ trip.phase \in {"none", "imported"}
    /\ trip' = IF trip.phase = "none"
               THEN [trip EXCEPT !.phase = "exported",
                                 !.payload = ExportUsageStreamFromDB(rows),
                                 !.first = ExportUsageStreamFromDB(rows).usage]
               ELSE [trip EXCEPT !.phase = "done",
                                 !.payload = ExportUsageStreamFromDB(rows)]
    /\ UNCHANGED <<answer, loggerVars, statsVars>>
    /\ UNCHANGED nonStoreVars

\* The operator empties the table (DELETE FROM request_logs).
ClearTable ==
    /\ DB # NilDB
    /\ answer.op = "none"
    /\ trip.phase = "exported"
    /\ rows # <<>>
    /\ rows' = <<>>
    /\ trip' = [trip EXCEPT !.phase = "cleared"]
    /\ UNCHANGED <<requestLogEnabled, DB, dbOnce, handlers, logHist, answer, statsVars>>
    /\ UNCHANGED nonStoreVars

\* ImportUsageStatistics with the store open, management/usage.go lines
\* 64-87, on the payload the operator kept: its rows are inserted in one
\* batch, api by api and model by model in the order the maps are ranged over.
ImportUsageToDB(order) ==
    LET groups == ImportedRows(trip.payload, Now(clock))
        logs == Flatten([i \in 1..Len(order) |-> groups[order[i]]])
    IN  /\ DB # NilDB
        /\ answer.op = "none"
        /\ trip.phase \in {"exported", "cleared"}
        /\ { order[i] : i \in 1..Len(order) } = DOMAIN groups
        /\ Len(rows) + Len(logs) <= MaxRows
        /\ rows' = rows \o logs
        /\ trip' = [trip EXCEPT !.phase = IF trip.phase = "cleared" THEN "imported" ELSE "none",
                                !.added = Len(logs),
                                !.skipped = 0]
        /\ UNCHANGED <<requestLogEnabled, DB, dbOnce, handlers, logHist, answer, statsVars>>
        /\ UNCHANGED nonStoreVars

\* RequestStatistics.Snapshot with the store open, database.go lines 479-482.
SnapshotDB(blankLast) ==
    /\ DB # NilDB
    /\ answer.op = "none"
    /\ answer' = [op |-> "snapshot", snapshot |-> SnapshotFromDB(rows, blankLast),
                  seen |-> rows, inMemory |-> stats.totalRequests]
    /\ UNCHANGED <<trip, loggerVars, statsVars>>
    /\ UNCHANGED nonStoreVars

\* GetTrafficLogs, lines 331-369: the answer without a store, else page, size
\* and filters, and the Count query. store: whether database.DB was set;
\* counted and found: the rows at the time of the Count and the Find query.
GetTrafficLogs(q) ==
    /\ answer.op = "none"
    /\ answer' = IF DB = NilDB
                 THEN [op |-> "logs", q |-> q, code |-> 200, logs |-> <<>>, total |-> 0,
                       page |-> 1, size |-> 20, error |-> "database not initialized",
                       store |-> FALSE, counted |-> rows, found |-> rows]
                 ELSE [op |-> "count", q |-> q,
                       total |-> Cardinality(TrafficQuery(q, rows).ids), counted |-> rows]
    /\ UNCHANGED <<trip, loggerVars, statsVars>>
    /\ UNCHANGED nonStoreVars

\* GetTrafficLogs, lines 371-388: the Find query and the answer.
TrafficFind ==
    /\ answer.op = "count"
    /\ answer' = [op |-> "logs", q |-> answer.q, code |-> 200,
                  logs |-> TrafficPage(answer.q, rows), total |-> answer.total,
                  page |-> TrafficQuery(answer.q, rows).page,
                  size |-> TrafficQuery(answer.q, rows).size, error |-> "",
                  store |-> TRUE, counted |-> answer.counted, found |-> rows]
    /\ UNCHANGED <<trip, loggerVars, statsVars>>
    /\ UNCHANGED nonStoreVars

\* The answer of a request has been sent.
Respond ==
    /\ answer.op \in {"logs", "snapshot"}
    /\ answer' = NoAnswer
    /\ UNCHANGED <<trip, loggerVars, statsVars>>
    /\ UNCHANGED nonStoreVars

\* The orders in which the api and model groups of the kept payload can be
\* ranged over.
ImportOrders ==
    LET groups == DOMAIN ImportedRows(trip.payload, Now(clock))
    IN  { order \in [1..Cardinality(groups) -> groups] :
            \A i, j \in 1..Cardinality(groups) : i # j => order[i] # order[j] }

StoreNext ==
    \/ \E opened \in BOOLEAN, migrated \in BOOLEAN : Startup(opened, migrated)
    \/ \E enabled \in BOOLEAN : SetRequestLogEnabled(enabled)
    \/ \E record \in StoreRecords : StoreHandleUsage(record)
    \/ ExportUsageStatistics
    \/ ClearTable
    \/ \E order \in ImportOrders : ImportUsageToDB(order)
    \/ \E blankLast \in BOOLEAN : SnapshotDB(blankLast)
    \/ Respond

TrafficNext ==
    \/ \E opened \in BOOLEAN, migrated \in BOOLEAN : Startup(opened, migrated)
    \/ \E enabled \in BOOLEAN : SetRequestLogEnabled(enabled)
    \/ \E record \in StoreRecords : StoreHandleUsage(record)
    \/ \E q \in TrafficQueries : GetTrafficLogs(q)
    \/ TrafficFind
    \/ Respond

(***************************************************************************)
(* Streamed export of the persistent store, write by write                 *)
(***************************************************************************)
\* A row as the loop of exportUsageStreamFromDB scans it (lines 174-183).
ScanRow(authIndex, model, totalTokens) ==
    [Timestamp |-> T1, Provider |-> "openai", Model |-> model, AuthIndex |-> authIndex,
     InputTokens |-> totalTokens, OutputTokens |-> 0, TotalTokens |-> totalTokens,
     IsError |-> FALSE]

\* The rows a store holds: without auth index, of an auth index and of the
\* auth index "unknown"; with and without model name.
ScanRows ==
    { ScanRow(a, m, 7) : a \in {"", "a1", "unknown"}, m \in {"", "m1"} }

\* The results of the query: up to MaxRows rows in the order of auth_index
\* and model.
RowSeqs ==
    { rs \in SeqsUpTo(ScanRows, MaxRows) :
        \A i \in 1..(Len(rs) - 1) :
            \/ StringRank(rs[i].AuthIndex) < StringRank(rs[i + 1].AuthIndex)
            \/ /\ rs[i].AuthIndex = rs[i + 1].AuthIndex
               /\ StringRank(rs[i].Model) <= StringRank(rs[i + 1].Model) }

\* How enc.Encode of a detail fails: its value cannot be marshalled (a
\* timestamp whose year is beyond 9999), the writer returns an error for this
\* write, or the writer returns an error from this write on. After an error
\* of the writer the json.Encoder returns that error from every Encode.
EncodeFailures == {"marshal", "write", "broken"}

\* The pieces of text written.
Open(bracket, scope, name) == [t |-> "open", bracket |-> bracket, scope |-> scope, name |-> name, n |-> 0]
Close(bracket) == [t |-> "close", bracket |-> bracket, scope |-> "", name |-> "", n |-> 0]
Comma == [t |-> ",", bracket |-> "", scope |-> "", name |-> "", n |-> 0]
Key(name) == [t |-> "key", bracket |-> "", scope |-> "", name |-> name, n |-> 0]
Value(n) == [t |-> "value", bracket |-> "", scope |-> "", name |-> "", n |-> n]
DetailText(r) == [t |-> "detail", bracket |-> "", scope |-> "", name |-> "", n |-> r.TotalTokens]

\* w.Write with its error dropped: the text is written unless the writer
\* returns errors.
Raw(w, text) == IF w.broken THEN w ELSE [w EXCEPT !.out = @ \o text]

\* A total written by enc.Encode followed by more text, as in the closures:
\* when Encode returns an error, the closure returns.
Totals(w, requests, tokens, closing) ==
    IF w.encErr THEN w
    ELSE Raw(w, <<Value(requests), Key("total_tokens"), Value(tokens)>> \o closing)

\* writeAPIModelTotals, lines 185-197.
WriteAPIModelTotals(w) ==
    IF w.firstModel THEN w
    ELSE Totals(Raw(w, <<Close("]"), Key("total_requests")>>),
                w.modTotalReq, w.modTotalTok, <<Close("}")>>)

\* writeAPITotals, lines 199-212.
WriteAPITotals(w) ==
    LET w1 == WriteAPIModelTotals(w)
    IN  IF w1.firstAPI THEN w1
        ELSE Totals(Raw(w1, <<Close("}"), Key("total_requests")>>),
                    w1.apiTotalReq, w1.apiTotalTok, <<Close("}")>>)

\* One iteration of the loop at lines 214-273 for the row r; failure is how
\* the Encode of its detail fails, "" when it does not.
WriteRow(w, r, failure) ==
    LET apiName == IF r.AuthIndex = "" THEN "unknown" ELSE r.AuthIndex
        modelName == IF r.Model = "" THEN "unknown" ELSE r.Model
        w1 == IF apiName = w.currentAPI THEN w
              ELSE LET closed == WriteAPITotals(w)
                       sep == IF closed.firstAPI THEN closed ELSE Raw(closed, <<Comma>>)
                   IN  Raw([sep EXCEPT !.firstAPI = FALSE, !.currentAPI = apiName,
                                       !.currentModel = "", !.apiTotalReq = 0,
                                       !.apiTotalTok = 0, !.firstModel = TRUE],
                           <<Open("{", "api", apiName), Open("{", "models", "")>>)
        w2 == IF modelName = w1.currentModel THEN w1
              ELSE LET closed == WriteAPIModelTotals(w1)
                       sep == IF closed.firstModel THEN closed ELSE Raw(closed, <<Comma>>)
                   IN  Raw([sep EXCEPT !.firstModel = FALSE, !.currentModel = modelName,
                                       !.modTotalReq = 0, !.modTotalTok = 0,
                                       !.firstDetail = TRUE],
                           <<Open("{", "model", modelName), Open("[", "details", "")>>)
        w3 == [(IF w2.firstDetail THEN w2 ELSE Raw(w2, <<Comma>>)) EXCEPT !.firstDetail = FALSE]
    IN  IF failure # ""
        THEN [w3 EXCEPT !.stopped = TRUE,
                        !.encErr = failure \in {"write", "broken"},
                        !.broken = failure = "broken"]
        ELSE [Raw(w3, <<DetailText(r)>>) EXCEPT !.modTotalReq = @ + 1,
                                                !.modTotalTok = @ + r.TotalTokens,
                                                !.apiTotalReq = @ + 1,
                                                !.apiTotalTok = @ + r.TotalTokens]

RECURSIVE WriteRows(_, _, _, _)
WriteRows(w, rs, i, fail) ==
    IF i > Len(rs) \/ w.stopped THEN w
    ELSE WriteRows(WriteRow(w, rs[i], IF i = fail.at THEN fail.how ELSE ""), rs, i + 1, fail)

\* exportUsageStreamFromDB, lines 103-279, on the rows rs: the text written,
\* piece by piece. fail names the row whose detail cannot be written (at 0:
\* none) and how its Encode fails.
ExportWrites(rs, fail) ==
    LET RECURSIVE Sum(_)
        Sum(i) == IF i = 0 THEN 0 ELSE rs[i].TotalTokens + Sum(i - 1)
        header == <<Open("{", "root", ""), Open("{", "usage", ""),
                    Key("total_requests"), Value(Len(rs)), Key("total_tokens"), Value(Sum(Len(rs))),
                    Open("{", "apis", "")>>
        start == [out |-> header, currentAPI |-> "", currentModel |-> "",
                  firstAPI |-> TRUE, firstModel |-> TRUE, firstDetail |-> TRUE,
                  apiTotalReq |-> 0, apiTotalTok |-> 0, modTotalReq |-> 0, modTotalTok |-> 0,
                  encErr |-> FALSE, broken |-> FALSE, stopped |-> FALSE]
    IN  Raw(WriteAPITotals(WriteRows(start, rs, 1, fail)),
            <<Close("}"), Close("}"), Close("}")>>).out

NoExport == [rows |-> <<>>, fail |-> [at |-> 0, how |-> ""], out |-> <<>>]

ExportInit == exported = NoExport

\* One export of a store that holds the rows rs.
ExportCall(rs, fail) ==
    /\ exported = NoExport
    /\ exported' = [rows |-> rs, fail |-> fail, out |-> ExportWrites(rs, fail)]
    /\ UNCHANGED nonExportVars

\* The response has been sent.
ExportDone ==
    /\ exported # NoExport
    /\ exported' = NoExport
    /\ UNCHANGED nonExportVars

ExportNext ==
    \/ \E rs \in RowSeqs :
           \E fail \in { [at |-> 0, how |-> ""] }
                       \cup { [at |-> i, how |-> f] : i \in 1..Len(rs), f \in EncodeFailures } :
               ExportCall(rs, fail)
    \/ ExportDone

(***************************************************************************)
(* usageReporter: capture of the streamed output                           *)
(***************************************************************************)
\* A translated stream chunk as CaptureStreamChunk reads it:
\*   empty   len(chunk) = 0
\*   sse     the chunk starts with data:
\*   valid   gjson.ValidBytes of the chunk without data: and white space
\*   id      id
\*   finish  choices.0.finish_reason
\*   openai  choices.0.delta.content
\*   gemini  candidates.0.content.parts.0.text
\*   delta   delta.text
\*   block   content_block.text
\* each the string gjson returns for the path, "" for a missing path too.
MkChunk(sse, id, finish, openai, gemini, delta, block) ==
    [empty |-> FALSE, sse |-> sse, valid |-> TRUE, id |-> id, finish |-> finish,
     openai |-> openai, gemini |-> gemini, delta |-> delta, block |-> block]

\* The chunks of a stream: every combination of texts at the four paths, a
\* first chunk with a response id, a last chunk with a finish reason, a chunk
\* that is not JSON ([DONE]) and an empty chunk.
StreamChunks ==
    { MkChunk(TRUE, "", "", o, g, d, b) :
        o \in {"", "A"}, g \in {"", "B"}, d \in {"", "C"}, b \in {"", "D"} }
    \cup { MkChunk(FALSE, "r1", "", "A", "", "", ""),
           MkChunk(TRUE, "", "stop", "", "", "", "D"),
           [MkChunk(TRUE, "", "", "A", "", "", "") EXCEPT !.valid = FALSE],
           [MkChunk(FALSE, "", "", "", "", "", "") EXCEPT !.empty = TRUE, !.valid = FALSE] }

\* The content looked up at lines 121-141 with the Gemini path tried first.
ChunkContentGeminiFirst(chunk) ==
    IF chunk.gemini # "" THEN chunk.gemini
    ELSE IF chunk.openai # "" THEN chunk.openai
    ELSE IF chunk.delta # "" THEN chunk.delta
    ELSE chunk.block

\* The content looked up at lines 121-141: the OpenAI path, then the Gemini
\* path, then delta.text and, when that is empty, content_block.text.
ChunkContent(chunk) ==
    IF chunk.openai # "" THEN chunk.openai
    ELSE IF chunk.gemini # "" THEN chunk.gemini
    ELSE IF chunk.delta # "" THEN chunk.delta
    ELSE chunk.block

\* newUsageReporter, lines 39-54: nothing captured.
CaptureInit ==
    capture = [outputPayload |-> "", respID |-> "", finishReasons |-> <<>>,
               calls |-> 0, op |-> "", delta |-> "",
               chunk |-> MkChunk(FALSE, "", "", "", "", "", "")]

\* AppendOutput, lines 80-87: the delta is appended as it is.
AppendOutput(delta) ==
    /\ capture.calls < MaxChunks
    /\ capture' = [capture EXCEPT !.calls = @ + 1, !.op = "append", !.delta = delta,
                                  !.outputPayload = IF delta = "" THEN @ ELSE @ \o delta]
    /\ UNCHANGED nonCaptureVars

\* CaptureStreamChunk, lines 91-146.
CaptureStreamChunk(chunk) ==
    /\ capture.calls < MaxChunks
    /\ capture' =
          IF chunk.empty \/ ~chunk.valid
          THEN [capture EXCEPT !.calls = @ + 1, !.op = "capture", !.chunk = chunk]
          ELSE [capture EXCEPT
                  !.calls = @ + 1,
                  !.op = "capture",
                  !.chunk = chunk,
                  !.respID = IF chunk.id # "" THEN chunk.id ELSE @,
                  !.finishReasons = IF chunk.finish # "" THEN Append(@, chunk.finish) ELSE @,
                  !.outputPayload = @ \o ChunkContent(chunk)]
    /\ UNCHANGED nonCaptureVars

CaptureNext ==
    \/ \E chunk \in StreamChunks : CaptureStreamChunk(chunk)
    \/ \E delta \in {"", "E"} : AppendOutput(delta)

Init ==
    /\ ReporterInit
    /\ FilterInit
    /\ StatsInit
    /\ LoggerInit
    /\ ParserInit
    /\ SourceInit
    /\ StoreInit
    /\ RaceInit
    /\ ExportInit
    /\ CaptureInit

SpecReporter == Init /\ [][ReporterNext]_vars

SpecFilter == Init /\ [][FilterNext]_vars

SpecStats == Init /\ [][StatsNext]_vars

SpecSnapshot == Init /\ [][SnapshotNext]_vars

SpecLogger == Init /\ [][LoggerNext]_vars

SpecDatabase == Init /\ [][DatabaseNext]_vars

SpecParser == Init /\ [][ParserNext]_vars

SpecIdentity == Init /\ [][IdentityNext]_vars

SpecSource == Init /\ [][SourceNext]_vars

SpecStore == Init /\ [][StoreNext]_vars

SpecTraffic == Init /\ [][TrafficNext]_vars

SpecRace == Init /\ [][RaceNext]_vars

SpecMerge == Init /\ [][MergeNext]_vars

SpecExport == Init /\ [][ExportNext]_vars

SpecCapture == Init /\ [][CaptureNext]_vars

\* The filter with its timers: a timer started by time.AfterFunc fires once
\* its duration has passed.
SpecFilterFair ==
    Init /\ [][ExpiryNext]_vars /\ \A t \in TraceIds : WF_vars(TimerFire(t))

(***************************************************************************)
(* Claims about the usageReporter                                          *)
(***************************************************************************)

\* C1: under every interleaving of publish, publishFailure, trackFailure
\* (non-nil error) and ensurePublished calls on one reporter,
\* usage.PublishRecord is invoked at most once, and once any of these calls
\* has returned it has been invoked exactly once.
C1_PublishExactlyOnce ==
    /\ Len(published) <= 1
    /\ returnedOps # {} => Len(published) = 1

\* Two calls race: one has published and is about to release the Once mutex,
\* the other passed the fast path before that and waits for the mutex.
C1_Witness ==
    \E c1, c2 \in Callers :
        /\ callers[c1].pc = "unlock"
        /\ callers[c2].pc = "lock"
        /\ Len(published) = 1

\* The detail the reporter is expected to publish for a call's argument: the
\* four component counts as given, the total as declared or else derived.
ExpectedDetail(arg) ==
    [arg EXCEPT !.TotalTokens =
        IF arg.TotalTokens # 0 THEN arg.TotalTokens
        ELSE arg.InputTokens + arg.OutputTokens + arg.ReasoningTokens]

\* C2: the published record carries the Failed flag and the detail of the
\* call that fired the latch first, and no later step changes it.
C2_FirstCallWins ==
    /\ [](published # <<>> =>
            /\ winner # <<>>
            /\ published[1].Failed = winner[1].failed
            /\ published[1].Detail = ExpectedDetail(winner[1].arg))
    /\ [][published # <<>> => published' = published]_vars

\* A success with a token detail was published and a late publishFailure has
\* returned without changing it.
C2_Witness ==
    /\ Len(published) = 1
    /\ published[1] = [Failed |-> FALSE, Detail |-> MkDetail(1, 2, 0, 0, 3)]
    /\ {"publish", "publishFailure"} \subseteq returnedOps

\* C3: a record published from the failure path has Failed = TRUE and all
\* five token counts zero; a trackFailure call publishes exactly when its
\* pointer and error are non-nil, and otherwise changes neither the latch
\* nor the published records nor any call in progress.
C3_FailurePath ==
    /\ [](\A i \in 1..Len(published) :
            (i <= Len(winner) /\ winner[i].op \in {"publishFailure", "trackFailure"})
                => published[i] = [Failed |-> TRUE, Detail |-> ZeroDetail])
    /\ [][(callsStarted' # callsStarted /\ lastCall'.op = "trackFailure") =>
            IF lastCall'.err = "err"
            THEN \E c \in Callers :
                    /\ callers[c].pc = "idle"
                    /\ callers'[c].pc = "once"
                    /\ callers'[c].failed
                    /\ callers'[c].detail = ZeroDetail
            ELSE UNCHANGED <<once, callers, published>>]_vars

\* trackFailure returned at its nil checks with the latch unfired, and a
\* later trackFailure with a real error published the zeroed failure record.
C3_Witness ==
    /\ noops = {"nilptr", "nilerr"}
    /\ Len(winner) = 1
    /\ winner[1].op = "trackFailure"
    /\ published = <<[Failed |-> TRUE, Detail |-> ZeroDetail]>>

(***************************************************************************)
(* Claims about FilterSSEUsageMetadata                                     *)
(***************************************************************************)
\* The correlation memory just before and just after line i of the last call.
MemBeforeLine(i) == IF i = 1 THEN lastRun.memBefore ELSE lastRun.mems[i - 1]
MemAfterLine(i) == lastRun.mems[i]

\* What the claims say about a document, read off its fields.
DeclaresFinish(d) ==
    d.valid /\ (d.fr \notin {Absent, ""} \/ d.rfr \notin {Absent, ""})
CarriesUsage(d) == d.valid /\ (d.um # Absent \/ d.rum # Absent)
IsStopWithoutUsageLine(l) ==
    l.kind = "data" /\ DeclaresFinish(l.doc) /\ ~CarriesUsage(l.doc) /\ l.doc.traceId # ""

\* The document d with its usage nodes renamed to the shadow key and every
\* other field as it was.
Renamed(d) == [d EXCEPT !.um = Absent, !.rum = Absent, !.cpa = d.um, !.rcpa = d.rum]

\* C4 as stated: a data line with a finish reason, no usage metadata and a
\* trace id is recorded in the correlation memory and dropped, so the
\* returned payload does not contain it.
C4_StopLineDropped ==
    \A i \in 1..Len(lastRun.payload) :
        IsStopWithoutUsageLine(lastRun.payload[i]) =>
            /\ lastRun.payload[i].doc.traceId \in MemAfterLine(i)
            /\ \A j \in 1..Len(lastRun.result) : lastRun.result[j] # lastRun.payload[i]

\* C4 as amended: such a line is recorded in the correlation memory and
\* stays in the returned payload, at its place and unchanged.
C4_StopLineRememberedAndKept ==
    \A i \in 1..Len(lastRun.payload) :
        IsStopWithoutUsageLine(lastRun.payload[i]) =>
            /\ lastRun.payload[i].doc.traceId \in MemAfterLine(i)
            /\ Len(lastRun.result) = Len(lastRun.payload)
            /\ lastRun.result[i] = lastRun.payload[i]

\* A stop-without-usage line for trace a was filtered together with a line
\* that was renamed: the trace id is remembered, the stop line is still there.
C4_Witness ==
    /\ Len(lastRun.payload) = 2
    /\ IsStopWithoutUsageLine(lastRun.payload[1])
    /\ lastRun.memBefore = {}
    /\ "a" \in stopChunkWithoutUsage
    /\ lastRun.result[2] # lastRun.payload[2]

\* C5: a usage-bearing data line whose trace id is in the correlation memory
\* is output unchanged and clears the entry, so that a usage-bearing
\* non-terminal line for the same trace id right after it is renamed.
C5_RememberedTracePassesOnce ==
    \A i \in 1..Len(lastRun.payload) :
        LET l == lastRun.payload[i]
        IN  (l.kind = "data" /\ CarriesUsage(l.doc) /\ l.doc.traceId \in MemBeforeLine(i)) =>
                /\ lastRun.result[i] = l
                /\ l.doc.traceId \notin MemAfterLine(i)
                /\ \A j \in 1..Len(lastRun.payload) :
                      LET n == lastRun.payload[j]
                      IN  (j = i + 1 /\ n.kind = "data" /\ n.doc.traceId = l.doc.traceId
                           /\ CarriesUsage(n.doc) /\ ~DeclaresFinish(n.doc)) =>
                              lastRun.result[j] = DataLine(Renamed(n.doc), 1)

\* Trace a was in the memory; of two non-terminal usage lines for a, the
\* first passed untouched and the second was renamed.
C5_Witness ==
    /\ lastRun.memBefore = {"a"}
    /\ Len(lastRun.payload) = 2
    /\ lastRun.payload[1] = DataLine(MkDoc(TRUE, "a", Absent, Absent, Absent, "v"), 1)
    /\ lastRun.payload[2] = lastRun.payload[1]
    /\ lastRun.result[1] = lastRun.payload[1]
    /\ lastRun.result[2] # lastRun.payload[2]
    /\ stopChunkWithoutUsage = {}

\* C6: a data line without finish reason that carries usage metadata and
\* whose trace id is not in the correlation memory comes out as valid JSON
\* with usageMetadata (top-level and under response) renamed to
\* cpaUsageMetadata, same value, and every other field as it was.
C6_UsageRenamed ==
    \A i \in 1..Len(lastRun.payload) :
        LET l == lastRun.payload[i]
        IN  (l.kind = "data" /\ CarriesUsage(l.doc) /\ ~DeclaresFinish(l.doc)
             /\ l.doc.traceId \notin MemBeforeLine(i)) =>
                LET out == lastRun.result[i]
                IN  /\ out.kind = "data"
                    /\ out.doc.valid
                    /\ out.doc.um = Absent /\ out.doc.rum = Absent
                    /\ out.doc.cpa = l.doc.um /\ out.doc.rcpa = l.doc.rum
                    /\ out.doc.traceId = l.doc.traceId
                    /\ out.doc.fr = l.doc.fr /\ out.doc.rfr = l.doc.rfr

\* A chunk with usage in both places was renamed in both.
C6_Witness ==
    /\ Len(lastRun.payload) >= 1
    /\ lastRun.payload[1] = DataLine(MkDoc(TRUE, "", Absent, Absent, "u", "v"), 1)
    /\ lastRun.result[1].doc.cpa = "u"
    /\ lastRun.result[1].doc.rcpa = "v"
    /\ lastRun.result[1].doc.um = Absent

\* A line the filter may rename: a data line or a bare document with usage
\* metadata and no finish reason.
RenameCandidate(l) ==
    l.kind \in {"data", "json"} /\ CarriesUsage(l.doc) /\ ~DeclaresFinish(l.doc)

HasDataLine(payload) == \E i \in 1..Len(payload) : payload[i].kind = "data"

\* The output is the input when no line needs a rename.
C7_IdenticalWithoutRename ==
    (\A i \in 1..Len(lastRun.payload) : ~RenameCandidate(lastRun.payload[i]))
        => lastRun.result = lastRun.payload

\* Line-wise, the output differs from the input in renamed lines only.
C7_LinewiseRename ==
    /\ Len(lastRun.result) = Len(lastRun.payload)
    /\ \A i \in 1..Len(lastRun.payload) :
          lastRun.result[i] # lastRun.payload[i] =>
              /\ RenameCandidate(lastRun.payload[i])
              /\ lastRun.result[i].kind = lastRun.payload[i].kind
              /\ lastRun.result[i].doc = Renamed(lastRun.payload[i].doc)

\* C7 as stated: the output is byte-identical when no line needs a rename,
\* and otherwise has the same lines in the same order, all but the renamed
\* ones byte-identical.
C7_FrameAsStated ==
    /\ C7_IdenticalWithoutRename
    /\ C7_LinewiseRename

\* C7 as amended: as stated for every payload with a data line; a payload
\* without data lines that is one bare JSON document between blank lines
\* comes back as the renamed document alone, without the blank lines.
C7_FrameAmended ==
    /\ C7_IdenticalWithoutRename
    /\ HasDataLine(lastRun.payload) => C7_LinewiseRename
    /\ (~HasDataLine(lastRun.payload) /\ lastRun.result # lastRun.payload) =>
          \E i \in 1..Len(lastRun.payload) :
              /\ \A j \in 1..Len(lastRun.payload) : j # i => lastRun.payload[j].kind = "blank"
              /\ RenameCandidate(lastRun.payload[i])
              /\ lastRun.result = <<JsonLine(Renamed(lastRun.payload[i].doc))>>

\* A terminal chunk written without a space after data: came back
\* byte-identical next to a line that was renamed.
C7_Witness ==
    /\ Len(lastRun.payload) = 2
    /\ lastRun.payload[1] = DataLine(MkDoc(TRUE, "a", "STOP", Absent, "u", Absent), 0)
    /\ lastRun.result[1] = lastRun.payload[1]
    /\ lastRun.result[2] # lastRun.payload[2]

\* C8: a payload that is one bare JSON document gets the rewritten JSON and
\* the effect on the correlation memory that the same document gets as the
\* payload of a single data line.
C8_RawJSONSameRule ==
    (Len(lastRun.payload) = 1 /\ lastRun.payload[1].kind = "json") =>
        LET asData == FilterSSEUsageMetadata(<<DataLine(lastRun.payload[1].doc, 1)>>,
                                             lastRun.memBefore)
        IN  /\ lastRun.result[1].doc = asData.result[1].doc
            /\ MemAfterLine(1) = asData.mem

(***************************************************************************)
(* Claims about the statistics aggregator                                  *)
(***************************************************************************)
\* C9: in memory mode with statistics enabled, a snapshot reports as
\* TotalRequests the number of Record calls that have returned, as
\* SuccessCount those with Failed false, as FailureCount those with Failed
\* true and as TotalTokens the sum of the records' normalised totals, also
\* when the calls overlap; no update is lost, and every snapshot has
\* TotalRequests = SuccessCount + FailureCount.
C9_SnapshotCountsCalls ==
    /\ snap # NoSnap =>
          /\ snap.TotalRequests = hist.seen.calls
          /\ snap.SuccessCount = hist.seen.calls - hist.seen.failures
          /\ snap.FailureCount = hist.seen.failures
          /\ snap.TotalTokens = hist.seen.tokens
          /\ snap.TotalRequests = snap.SuccessCount + snap.FailureCount
    /\ mu = 0 =>
          /\ stats.totalRequests = hist.calls
          /\ stats.successCount = hist.calls - hist.failures
          /\ stats.failureCount = hist.failures
          /\ stats.totalTokens = hist.tokens

\* Three successes of 10, 20 and 30 tokens and one failure without tokens
\* have been recorded by overlapping callers and a snapshot shows 4, 3, 1, 60.
C9_Witness ==
    /\ snap # NoSnap
    /\ snap.TotalRequests = 4
    /\ snap.SuccessCount = 3
    /\ snap.FailureCount = 1
    /\ snap.TotalTokens = 60
    /\ hist.started = 4
    /\ \A r \in Recorders : recs[r].pc = "idle"

\* C10: a returned snapshot is a deep copy. A step that changes the store
\* (Record, MergeSnapshot) changes nothing a held snapshot shows; a step that
\* changes a held snapshot changes nothing in the store; and taking the
\* snapshot leaves the store as it was.
C10_SnapshotIsDeepCopy ==
    [][ /\ (snap # NoSnap /\ StoreView(stats', heap') # StoreView(stats, heap))
            => (snap' # NoSnap /\ SnapshotView(snap', heap') = SnapshotView(snap, heap))
        /\ (snap # NoSnap /\ snap' # NoSnap
               /\ SnapshotView(snap', heap') # SnapshotView(snap, heap))
            => StoreView(stats', heap') = StoreView(stats, heap)
        /\ (snap = NoSnap /\ snap' # NoSnap)
            => StoreView(stats', heap') = StoreView(stats, heap) ]_vars

\* A snapshot is held, its holder has changed it, and the store has since
\* taken in an identity the snapshot does not show.
C10_Witness ==
    /\ snap # NoSnap
    /\ hist.mutations > 0
    /\ stats.totalRequests > 0
    /\ \E a \in DOMAIN heap[ApisRef("s")] : a \notin DOMAIN heap[snap.APIs]
    /\ DOMAIN heap[snap.APIs] # {}

(***************************************************************************)
(* Claims about MergeSnapshot                                              *)
(***************************************************************************)
\* The details of a snapshot value, each named by identity, model and place.
DetailSlots(snapshot) ==
    UNION { UNION { { <<a, m, i>> : i \in 1..Len(snapshot.APIs[a].Models[m].Details) } :
                    m \in DOMAIN snapshot.APIs[a].Models } :
            a \in DOMAIN snapshot.APIs }

\* Those under an identity that is not blank.
NamedDetailSlots(snapshot) == { slot \in DetailSlots(snapshot) : TrimSpace(slot[1]) # "" }

\* The stores a snapshot is merged into: the store as it is now and a new one.
MergeBases ==
    { [st |-> stats, h |-> heap, clock |-> clock],
      [st |-> EmptyStats, h |-> EmptyHeap, clock |-> clock] }

\* MergeSnapshot called twice in a row with the same snapshot.
MergeTwice(base, snapshot) ==
    LET first == MergeSnapshotResult(base.st, base.h, base.clock, snapshot)
    IN  [first |-> first,
         second |-> MergeSnapshotResult(first.st, first.h, first.clock, snapshot)]

\* The snapshot held is as Snapshot produced it.
HoldsExport == snap # NoSnap /\ hist.mutations = 0

\* C11 as stated: merging an exported snapshot a second time returns Added 0
\* and Skipped equal to the number of details in it, and leaves the store
\* unchanged.
C11_SecondMergeSkipsAll ==
    HoldsExport =>
        \A base \in MergeBases :
            LET twice == MergeTwice(base, SnapshotView(snap, heap))
            IN  /\ twice.second.result.Added = 0
                /\ twice.second.result.Skipped = Cardinality(DetailSlots(SnapshotView(snap, heap)))
                /\ StoreView(twice.second.st, twice.second.h)
                       = StoreView(twice.first.st, twice.first.h)

\* C11 as amended: merging an exported snapshot a second time returns Added
\* 0 and Skipped equal to the number of its details under identities that
\* are not blank, and leaves every counter, rollup and bucket of the store
\* unchanged.
C11_SecondMergeSkipsNamed ==
    HoldsExport =>
        \A base \in MergeBases :
            LET twice == MergeTwice(base, SnapshotView(snap, heap))
            IN  /\ twice.second.result.Added = 0
                /\ twice.second.result.Skipped
                       = Cardinality(NamedDetailSlots(SnapshotView(snap, heap)))
                /\ StoreView(twice.second.st, twice.second.h)
                       = StoreView(twice.first.st, twice.first.h)

\* An exported snapshot with details under a named and under a blank identity
\* has been merged into the store, and the merge skipped the named ones.
C11_Witness ==
    /\ HoldsExport
    /\ NamedDetailSlots(SnapshotView(snap, heap)) # {}
    /\ DetailSlots(SnapshotView(snap, heap)) # NamedDetailSlots(SnapshotView(snap, heap))
    /\ hist.merged.Added = 0
    /\ hist.merged.Skipped = Cardinality(NamedDetailSlots(SnapshotView(snap, heap)))

\* The components the dedup key is made of, for a detail of the store.
KeyComponents(apiName, modelName, detail) ==
    <<apiName, modelName, [ns |-> detail.Timestamp.ns, slot |-> <<"", "", 0>>],
      detail.Source, detail.AuthIndex, detail.Failed, NormaliseTokenStats(detail.Tokens)>>

\* The components of the details the store holds.
StoreComponents(h) ==
    LET apis == ApisView(h, ApisRef("s"))
    IN  UNION { UNION { { KeyComponents(a, m, apis[a].Models[m].Details[i]) :
                            i \in 1..Len(apis[a].Models[m].Details) } :
                        m \in DOMAIN apis[a].Models } :
                a \in DOMAIN apis }

\* The components of the details of a snapshot handed to MergeSnapshot, under
\* the trimmed names; a detail without a timestamp gets a time of its own.
ImportComponents(snapshot) ==
    { LET detail == snapshot.APIs[slot[1]].Models[slot[2]].Details[slot[3]]
          modelName == IF TrimSpace(slot[2]) = "" THEN "unknown" ELSE TrimSpace(slot[2])
      IN  IF detail.Timestamp = ZeroTime
          THEN <<TrimSpace(slot[1]), modelName, [ns |-> -1, slot |-> slot], detail.Source,
                 detail.AuthIndex, detail.Failed, NormaliseTokenStats(detail.Tokens)>>
          ELSE KeyComponents(TrimSpace(slot[1]), modelName, detail) :
      slot \in NamedDetailSlots(snapshot) }

\* The snapshots a merge may be given in this state.
MergeInputs ==
    ImportSnapshots \cup (IF snap = NoSnap THEN {} ELSE { SnapshotView(snap, heap) })

\* C12: MergeSnapshot skips a detail if and only if a detail with the same
\* identity, model, instant, source, auth index, failed flag and normalised
\* token counts is in the store or was added earlier in the same merge: the
\* details added are those whose components are new, the others are skipped.
C12_SkipsOnlySameComponents ==
    \A snapshot \in MergeInputs :
        LET result == MergeSnapshotResult(stats, heap, clock, snapshot).result
            fresh == ImportComponents(snapshot) \ StoreComponents(heap)
        IN  /\ result.Added = Cardinality(fresh)
            /\ result.Skipped = Cardinality(NamedDetailSlots(snapshot)) - Cardinality(fresh)

(***************************************************************************)
(* Claims about the token totals                                           *)
(***************************************************************************)
\* C13: the Detail of every record the reporter hands to PublishRecord keeps
\* a declared non-zero TotalTokens, else has the sum of input, output and
\* reasoning tokens as its total, else, that sum being zero, the cached
\* tokens; the other four counts are those of the call.
C13_PublishedTotalNormalised ==
    \A i \in 1..Len(published) :
        i <= Len(winner) =>
            published[i].Detail =
                [winner[i].arg EXCEPT !.TotalTokens = ExpectedTotal(winner[i].arg)]

(***************************************************************************)
(* Claims about the LoggerPlugin and the persistent store                  *)
(***************************************************************************)
\* The token counts of the details the store holds.
StoredTokens(h) ==
    LET apis == ApisView(h, ApisRef("s"))
    IN  UNION { UNION { { apis[a].Models[m].Details[i].Tokens :
                            i \in 1..Len(apis[a].Models[m].Details) } :
                        m \in DOMAIN apis[a].Models } :
                a \in DOMAIN apis }

\* The token counts handed to Record, through HandleUsage, and to MergeSnapshot.
HandledTokens ==
    { record.Detail : record \in HandledRecords }
    \cup UNION { { snapshot.APIs[slot[1]].Models[slot[2]].Details[slot[3]].Tokens :
                     slot \in DetailSlots(snapshot) } : snapshot \in ImportSnapshots }

\* Token counts with the total the rule gives: the declared total when it is
\* not zero, else input + output + reasoning, else that sum plus cached.
WithRuleTotal(tokens) == [tokens EXCEPT !.TotalTokens = ExpectedTotal(tokens)]

\* C14: every detail the aggregator stores, through Record or MergeSnapshot,
\* and every row logToDatabase builds or has written carries the counts it was
\* given with the total of the one rule (declared total if not zero, else
\* input + output + reasoning, else that plus cached), and normalising counts
\* that are already normalised changes nothing.
C14_TotalsNormalisedOnce ==
    /\ StoredTokens(heap) \subseteq { WithRuleTotal(tokens) : tokens \in HandledTokens }
    /\ \A h \in Handlers :
          handlers[h].pc = "create" =>
              /\ handlers[h].row.TotalTokens = ExpectedTotal(handlers[h].record.Detail)
              /\ handlers[h].row.InputTokens = handlers[h].record.Detail.InputTokens
              /\ handlers[h].row.OutputTokens = handlers[h].record.Detail.OutputTokens
    /\ \A i \in 1..Len(rows) :
          \E record \in HandledRecords :
              /\ rows[i].TotalTokens = ExpectedTotal(record.Detail)
              /\ rows[i].InputTokens = record.Detail.InputTokens
              /\ rows[i].OutputTokens = record.Detail.OutputTokens
    /\ \A tokens \in HandledTokens \cup StoredTokens(heap) :
          /\ NormaliseDetail(NormaliseDetail(tokens)) = NormaliseDetail(tokens)
          /\ NormaliseTokenStats(NormaliseTokenStats(tokens)) = NormaliseTokenStats(tokens)
          /\ NormaliseDetail(NormaliseTokenStats(tokens)) = NormaliseTokenStats(tokens)
          /\ NormaliseTokenStats(NormaliseDetail(tokens)) = NormaliseDetail(tokens)

\* The store holds a detail MergeSnapshot derived a total for and one Record
\* folded the cached tokens into, and a row with that folded total is written.
C14_Witness ==
    /\ MkDetail(3, 4, 0, 0, 7) \in StoredTokens(heap)
    /\ MkDetail(0, 0, 0, 30, 30) \in StoredTokens(heap)
    /\ \E i \in 1..Len(rows) : rows[i].TotalTokens = 30

\* A step in which HandleUsage is called.
CallStep == logHist'.handled = logHist.handled + 1

\* A step in which the call of h gets past p.stats.Record and the gate.
RecordStep(h) == handlers[h].pc = "record" /\ handlers'[h].pc # "record"

\* A step in which the insert of h returns with an error.
FailedInsertStep(h) ==
    /\ handlers[h].pc = "create"
    /\ handlers'[h].pc # "create"
    /\ logHist'.failedAt = handlers[h].callNo
    /\ rows' = rows

\* C17: the two toggles are independent. A HandleUsage call made while
\* request logging is enabled and a store is configured goes on to the
\* persistent write whatever the statistics toggle says; past the first
\* check, the row is handed to the store if and only if request logging is
\* enabled and a store is configured, and the aggregate is updated if and only
\* if statistics are enabled.
C17_TogglesIndependent ==
    [][ /\ (CallStep /\ requestLogEnabled /\ DB # NilDB) =>
               \E h \in Handlers : handlers[h].pc = "idle" /\ handlers'[h].pc # "idle"
        /\ \A h \in Handlers :
              RecordStep(h) =>
                  /\ handlers'[h].pc = "create" <=> (requestLogEnabled /\ DB # NilDB)
                  /\ stats'.totalRequests = stats.totalRequests + 1 <=> statisticsEnabled
      ]_vars

\* C18: HandleUsage returns without waiting for the insert: no call of
\* HandleUsage is still open while its DB.Create is in flight.
C18_ReturnsBeforeInsert ==
    \A h \in Handlers : handlers[h].pc # "create"

RecognisedDriver(driver) == ToLower(driver) \in {"mysql", "sqlite", "sqlite3"}

\* C20: Init called with a driver name that is not mysql, sqlite or sqlite3
\* (in any case) returns an error and leaves DB unset; it never opens another
\* backend in its place.
C20_UnknownDriverRejected ==
    \A i \in 1..Len(logHist.inits) :
        ~RecognisedDriver(logHist.inits[i].cfg.Driver) =>
            /\ logHist.inits[i].result # "nil"
            /\ logHist.inits[i].ran => DB = NilDB

(***************************************************************************)
(* Claims about the usage parsers                                          *)
(***************************************************************************)
\* C15: whatever the wire shape, the detail a parser returns has a total
\* equal to the total the document declares or, without one, to input +
\* output + reasoning; parseOpenAIUsage on
\* {"usage":{"prompt_tokens":1,"completion_tokens":2}} returns input 1,
\* output 2 and total 3.
C15_ParsedTotal ==
    LET detail == parsed.result.detail
    IN  /\ \/ detail.TotalTokens =
                  detail.InputTokens + detail.OutputTokens + detail.ReasoningTokens
           \/ \E path \in DOMAIN parsed.line.doc :
                 \E field \in {"total_tokens", "totalTokenCount"} \cap DOMAIN parsed.line.doc[path] :
                     /\ parsed.line.doc[path][field] # 0
                     /\ detail.TotalTokens = parsed.line.doc[path][field]
        /\ ( /\ parsed.parser = "parseOpenAIUsage"
             /\ parsed.line.doc = ("usage" :> (("prompt_tokens" :> 1) @@ ("completion_tokens" :> 2))) )
           => detail = MkDetail(1, 2, 0, 0, 3)

\* The value at the first of the paths that exists in the object, 0 when none
\* does.
ValueAtFirst(obj, paths) ==
    LET there == { i \in 1..Len(paths) : paths[i] \in DOMAIN obj }
    IN  IF there = {} THEN 0
        ELSE obj[paths[CHOOSE i \in there : \A j \in there : i <= j]]

\* The object at the first of the node paths that exists in the document.
NodeAtFirst(doc, paths) ==
    LET there == { i \in 1..Len(paths) : paths[i] \in DOMAIN doc }
    IN  doc[paths[CHOOSE i \in there : \A j \in there : i <= j]]

\* The parsers that look a field or a node up under more than one path, with
\* the node they read the fields from.
OpenAIChains ==
    [InputTokens     |-> <<"prompt_tokens", "input_tokens">>,
     OutputTokens    |-> <<"completion_tokens", "output_tokens">>,
     CachedTokens    |-> <<"prompt_tokens_details.cached_tokens",
                           "input_tokens_details.cached_tokens">>,
     ReasoningTokens |-> <<"completion_tokens_details.reasoning_tokens",
                           "output_tokens_details.reasoning_tokens">>]

MetadataChains ==
    [parseGeminiUsage            |-> <<"usageMetadata", "usage_metadata">>,
     parseGeminiStreamUsage      |-> <<"usageMetadata", "usage_metadata">>,
     parseAntigravityUsage       |-> <<"response.usageMetadata", "usageMetadata",
                                       "usage_metadata">>,
     parseAntigravityStreamUsage |-> <<"response.usageMetadata", "usageMetadata",
                                       "usage_metadata">>]

\* C16: every field and node that has more than one path is read from the
\* first path that exists, also when the value there is 0, and never from a
\* later one: the four fields of parseOpenAIUsage, the usage node of the
\* Gemini and Antigravity parsers, and the cached tokens of the Claude
\* parsers (cache_read_input_tokens, then cache_creation_input_tokens).
C16_FirstExistingPath ==
    LET detail == parsed.result.detail
        doc == parsed.line.doc
    IN  /\ (parsed.parser = "parseOpenAIUsage" /\ "usage" \in DOMAIN doc) =>
               \A field \in DOMAIN OpenAIChains :
                   detail[field] = ValueAtFirst(doc["usage"], OpenAIChains[field])
        /\ ( /\ parsed.parser \in DOMAIN MetadataChains
             /\ parsed.line.valid
             /\ \E i \in 1..Len(MetadataChains[parsed.parser]) :
                    MetadataChains[parsed.parser][i] \in DOMAIN doc ) =>
               detail = ParseGeminiFamilyUsageDetail(
                            NodeAtFirst(doc, MetadataChains[parsed.parser]))
        /\ ( /\ parsed.parser \in {"parseClaudeUsage", "parseClaudeStreamUsage"}
             /\ parsed.line.valid
             /\ "usage" \in DOMAIN doc ) =>
               detail.CachedTokens =
                   ValueAtFirst(doc["usage"],
                                <<"cache_read_input_tokens", "cache_creation_input_tokens">>)

(***************************************************************************)
(* Claims about the identity key of Record                                 *)
(***************************************************************************)
\* The details the store holds under an identity and a model, none when it
\* has no such bucket.
BucketDetails(h, api, model) ==
    LET apis == ApisView(h, ApisRef("s"))
    IN  IF api \in DOMAIN apis /\ model \in DOMAIN apis[api].Models
        THEN apis[api].Models[model].Details ELSE <<>>

\* The buckets of the store.
Buckets(h) ==
    LET apis == ApisView(h, ApisRef("s"))
    IN  UNION { { <<a, m>> : m \in DOMAIN apis[a].Models } : a \in DOMAIN apis }

\* C24: Record puts the detail of a record under the identity key chosen in
\* this order: the API key when not empty, else method and path joined by a
\* space, else the provider, else "unknown"; and under the model name, an
\* empty one replaced by "unknown". Every Record step is the step of a
\* record whose detail is appended to that bucket, and no other bucket
\* changes.
C24_IdentityKeyOrder ==
    [][ stats'.totalRequests = stats.totalRequests + 1 =>
          \E record \in UsageRecords \cup
                  { MkRecord("", "GET", "", "", "m2", "src5", "", T1, TRUE, ZeroDetail) } :
              LET key == IF record.APIKey # "" THEN record.APIKey
                         ELSE IF record.Method # "" /\ record.Path # ""
                              THEN record.Method \o " " \o record.Path
                         ELSE IF record.Provider # "" THEN record.Provider
                         ELSE "unknown"
                  model == IF record.Model # "" THEN record.Model ELSE "unknown"
                  before == BucketDetails(heap, key, model)
                  after == BucketDetails(heap', key, model)
              IN  /\ Len(after) = Len(before) + 1
                  /\ SubSeq(after, 1, Len(before)) = before
                  /\ after[Len(after)].Source = record.Source
                  /\ after[Len(after)].AuthIndex = record.AuthIndex
                  /\ after[Len(after)].Failed = record.Failed
                  /\ after[Len(after)].Tokens = WithRuleTotal(record.Detail)
                  /\ \A b \in Buckets(heap') \ {<<key, model>>} :
                        /\ b \in Buckets(heap)
                        /\ BucketDetails(heap', b[1], b[2]) = BucketDetails(heap, b[1], b[2])
      ]_vars

\* Records were stored under a method and path with a nameless model, under
\* a provider and under "unknown".
C24_Witness ==
    /\ BucketDetails(heap, "POST /v1/chat", "unknown") # <<>>
    /\ BucketDetails(heap, "gemini", "m2") # <<>>
    /\ BucketDetails(heap, "unknown", "m2") # <<>>

(***************************************************************************)
(* Claims about the expiry of the correlation memory                       *)
(***************************************************************************)
\* A step in which an expiry timer of trace id t fires.
TimerStep(t) == timers'[t] = timers[t] - 1

\* C28: an entry of the correlation memory is never evicted before its own
\* 10 minutes are over, also when its trace id had been recorded and cleared
\* before: the timer that removes an entry was not started by a call earlier
\* than the one that put the entry into the memory.
C28_NeverEvictedEarly ==
    [][ \A t \in TraceIds :
          TimerStep(t) /\ t \in stopChunkWithoutUsage => staleTimers[t] = 0
      ]_vars

\* C29: at every moment at most one expiry timer is pending for a trace id.
C29_OneTimerPerEntry ==
    \A t \in TraceIds : timers[t] <= 1

\* A step in which FilterSSEUsageMetadata is called on a payload with a data
\* line of trace id t.
FilterStepOn(t) ==
    /\ lastRun = NoRun
    /\ lastRun' # NoRun
    /\ \E i \in 1..Len(lastRun'.payload) :
          /\ lastRun'.payload[i].kind = "data"
          /\ lastRun'.payload[i].doc.traceId = t

\* C30: every entry of the correlation memory is evicted by its timer
\* without any consumer activity: an entry always has a pending expiry
\* timer, and unless chunks of its trace id keep being filtered for ever,
\* the trace id is eventually absent from the memory for good.
C30_EvictedWithoutConsumer ==
    \A t \in TraceIds :
        /\ [](t \in stopChunkWithoutUsage => timers[t] > 0)
        /\ ([]<><<FilterStepOn(t)>>_vars \/ <>[](t \notin stopChunkWithoutUsage))

\* A call left trace id "a" in the memory and its timer has removed it before
\* the payload was delivered.
C30_Witness ==
    /\ lastRun # NoRun
    /\ lastRun.mems # <<>>
    /\ "a" \in lastRun.mems[Len(lastRun.mems)]
    /\ stopChunkWithoutUsage = {}
    /\ \A t \in TraceIds : timers[t] = 0

(***************************************************************************)
(* Claims about the usage source                                           *)
(***************************************************************************)
\* The values the source can come from, in the order of their priority:
\* the subject of a gemini-cli auth, project_id and project of a vertex
\* auth, the account info, the email, the api_key attribute, the caller's key.
SourceCandidates(auth, ctxAPIKey) ==
    LET provider == ToLower(TrimSpace(auth.Provider))
        meta(v) == IF v = Absent THEN "" ELSE TrimSpace(v)
    IN  IF auth.nil THEN <<AnonymizeString(TrimSpace(ctxAPIKey))>>
        ELSE << IF provider = "gemini-cli" THEN TrimSpace(auth.ID) ELSE "",
                IF provider = "vertex" THEN meta(auth.project_id) ELSE "",
                IF provider = "vertex" THEN meta(auth.project) ELSE "",
                IF auth.account[1] = "api_key" THEN AnonymizeString(auth.account[2])
                ELSE TrimSpace(auth.account[2]),
                meta(auth.email),
                AnonymizeString(TrimSpace(auth.api_key)),
                AnonymizeString(TrimSpace(ctxAPIKey)) >>

RawKeys(auth, ctxAPIKey) ==
    ( {auth.api_key, TrimSpace(auth.api_key), ctxAPIKey, TrimSpace(ctxAPIKey)}
      \cup (IF auth.account[1] = "api_key" THEN {auth.account[2]} ELSE {}) ) \ {"", " "}

\* C23: the source is never a raw API key that went into the call; when it
\* is derived from an API key (no subject, and no account or email before
\* the key) it is the 16-character hash of that key, the same for equal keys.
C23_NeverRawKey ==
    resolved.called =>
        LET auth == resolved.auth
            fromAccount == ~auth.nil /\ SubjectID(auth) = "" /\ auth.account[1] = "api_key"
            noneBefore == auth.nil \/ ( /\ SubjectID(auth) = ""
                                        /\ auth.account[2] = ""
                                        /\ auth.email \in {Absent, " "} )
            fromAttr == ~auth.nil /\ noneBefore /\ TrimSpace(auth.api_key) # ""
            fromCtx == noneBefore /\ ~fromAttr /\ TrimSpace(resolved.ctxAPIKey) # ""
        IN  /\ resolved.source \notin RawKeys(auth, resolved.ctxAPIKey)
            /\ fromAccount => resolved.source = AnonymizeString(auth.account[2])
            /\ fromAttr => resolved.source = AnonymizeString(TrimSpace(auth.api_key))
            /\ fromCtx => resolved.source = AnonymizeString(TrimSpace(resolved.ctxAPIKey))
            /\ fromAccount \/ fromAttr \/ fromCtx => Len(resolved.source) = 16

\* The source came from the caller's key alone.
C23_Witness ==
    /\ resolved.called
    /\ resolved.auth.nil
    /\ resolved.ctxAPIKey = " k1 "
    /\ resolved.source = "6ab9f1eb8f7d3388"

(***************************************************************************)
(* Claims about the rows of the persistent store                           *)
(***************************************************************************)
\* C21: every row of the persistent store has a generated RequestID of its
\* own, which is never the raw API key of a caller: no two rows share a
\* RequestID, also not two records of one caller with the same timestamp.
C21_RequestIDUnique ==
    \A i, j \in 1..Len(rows) :
        /\ i # j => rows[i].RequestID # rows[j].RequestID
        /\ \A record \in HandledRecords :
              record.APIKey # "" => rows[i].RequestID # record.APIKey

\* The number of details written into an export payload.
PayloadDetails(payload) ==
    LET RECURSIVE InModels(_, _)
        InModels(models, n) ==
            IF n = 0 THEN 0 ELSE Len(models[n].details) + InModels(models, n - 1)
        RECURSIVE InAPIs(_)
        InAPIs(n) ==
            IF n = 0 THEN 0
            ELSE InModels(payload.apis[n].models, Len(payload.apis[n].models)) + InAPIs(n - 1)
    IN  InAPIs(Len(payload.apis))

\* C25: with the store open, exporting, emptying the store, importing the
\* exported payload and exporting again gives the total requests, total
\* tokens and failure count of the first export; the import inserts one row
\* per detail of the payload and reports that number as added and 0 as
\* skipped.
C25_RoundTripTotals ==
    /\ trip.phase = "imported" =>
          /\ trip.added = PayloadDetails(trip.payload)
          /\ trip.skipped = 0
          /\ Len(rows) = trip.added
    /\ trip.phase = "done" =>
          /\ trip.payload.usage.total_requests = trip.first.total_requests
          /\ trip.payload.usage.total_tokens = trip.first.total_tokens
          /\ trip.payload.usage.failure_count = trip.first.failure_count

\* C27: with the store open Snapshot is computed from the rows alone: the
\* totals are the row count, the error rows, their difference and the sum of
\* the row totals; every identity (the auth index, "unknown" for none) and
\* every model under it has the count and token sum of its rows; detail
\* lists are empty and the four time maps are empty; what only the memory
\* holds does not count.
C27_SnapshotFromRows ==
    answer.op = "snapshot" =>
        LET rs == answer.seen
            s == answer.snapshot
            identity(i) == IF rs[i].AuthIndex = "" THEN "unknown" ELSE rs[i].AuthIndex
            of(a) == { i \in 1..Len(rs) : identity(i) = a }
            ofModel(a, m) == { i \in of(a) : rs[i].Model = m }
            RECURSIVE Tokens(_)
            Tokens(S) == IF S = {} THEN 0
                         ELSE LET i == CHOOSE x \in S : TRUE
                              IN  rs[i].TotalTokens + Tokens(S \ {i})
            errors == { i \in 1..Len(rs) : rs[i].IsError }
        IN  /\ s.TotalRequests = Len(rs)
            /\ s.FailureCount = Cardinality(errors)
            /\ s.SuccessCount = Len(rs) - Cardinality(errors)
            /\ s.TotalTokens = Tokens(1..Len(rs))
            /\ DOMAIN s.APIs = { identity(i) : i \in 1..Len(rs) }
            /\ \A a \in DOMAIN s.APIs :
                  /\ s.APIs[a].TotalRequests = Cardinality(of(a))
                  /\ s.APIs[a].TotalTokens = Tokens(of(a))
                  /\ DOMAIN s.APIs[a].Models = { rs[i].Model : i \in of(a) }
                  /\ \A m \in DOMAIN s.APIs[a].Models :
                        /\ s.APIs[a].Models[m].TotalRequests = Cardinality(ofModel(a, m))
                        /\ s.APIs[a].Models[m].TotalTokens = Tokens(ofModel(a, m))
                        /\ s.APIs[a].Models[m].Details = <<>>
            /\ s.RequestsByDay = EmptyMap /\ s.RequestsByHour = EmptyMap
            /\ s.TokensByDay = EmptyMap /\ s.TokensByHour = EmptyMap

\* C26: GetTrafficLogs answers with the rows whose model and status code
\* equal the filters given (a status that is not a number is ignored), with
\* total the number of such rows whatever the page, and with at most size
\* rows, newest first by timestamp and then id, from offset (page-1)*size;
\* page is 1 and size 20 unless a valid value is given, a size outside
\* 1..100 gives 20; without a store the answer is 200, an empty list and
\* the error "database not initialized".
C26_TrafficLogs ==
    answer.op = "logs" =>
        LET q == answer.q
            page == IF q.page = "2" THEN 2 ELSE 1
            size == IF q.size = "1" THEN 1 ELSE 20
            matches(r) == /\ q.model = "m1" => r.Model = "m1"
                          /\ q.status = "200" => r.StatusCode = 200
            matching(rs) == { i \in 1..Len(rs) : matches(rs[i]) }
            newer(rs, i, j) == \/ rs[i].Timestamp.ns > rs[j].Timestamp.ns
                               \/ rs[i].Timestamp.ns = rs[j].Timestamp.ns /\ i > j
            found == answer.found
            left == Cardinality(matching(found)) - (page - 1) * size
        IN  IF ~answer.store
            THEN /\ answer.code = 200 /\ answer.logs = <<>> /\ answer.total = 0
                 /\ answer.page = 1 /\ answer.size = 20
                 /\ answer.error = "database not initialized"
            ELSE /\ answer.code = 200
                 /\ answer.page = page
                 /\ answer.size = size
                 /\ answer.total = Cardinality(matching(answer.counted))
                 /\ Len(answer.logs) = IF left < 0 THEN 0 ELSE IF left < size THEN left ELSE size
                 /\ \A k \in 1..Len(answer.logs) :
                       /\ answer.logs[k].id \in matching(found)
                       /\ answer.logs[k].row = found[answer.logs[k].id]
                       /\ Cardinality({ j \in matching(found) : newer(found, j, answer.logs[k].id) })
                             = (page - 1) * size + k - 1

\* The second page of size 1 of a filtered query over three rows, two of
\* them of the model asked for and equal in time.
C26_Witness ==
    /\ answer.op = "logs"
    /\ answer.store
    /\ answer.q.page = "2" /\ answer.q.size = "1" /\ answer.q.model = "m1"
    /\ Len(answer.found) = 3
    /\ answer.total = 2
    /\ Len(answer.logs) = 1
    /\ answer.logs[1].id = 1

(***************************************************************************)
(* Claims about concurrent calls of the streaming usage filter             *)
(***************************************************************************)
\* C31: one recorded correlation entry lets at most one usage-bearing chunk
\* through unrenamed. The non-terminal usage-bearing lines that have passed
\* through the consume branch never outnumber the recordings made, whatever
\* the interleaving of the calls.
C31_OnePassPerEntry == passes.unrenamed <= passes.recorded

(***************************************************************************)
(* Claims about imports into the statistics                               *)
(***************************************************************************)
\* C32: a merged detail that lacks a timestamp is given the current time
\* before its dedup key is built, so importing the same detail without a
\* timestamp twice adds it twice: each import returns Added 1 and Skipped 0,
\* and TotalRequests grows by one each time, whatever the store holds.
C32_ZeroStampNotDeduplicated ==
    \A base \in MergeBases, detail \in ZeroStampDetails, apiName \in {"k1", "k9"} :
        LET twice == MergeTwice(base, MkImport(apiName, "m1", <<detail>>))
        IN  /\ twice.first.result = [Added |-> 1, Skipped |-> 0]
            /\ twice.second.result = [Added |-> 1, Skipped |-> 0]
            /\ twice.first.st.totalRequests = base.st.totalRequests + 1
            /\ twice.second.st.totalRequests = base.st.totalRequests + 2
            /\ Len(BucketDetails(twice.second.h, apiName, "m1"))
                   = Len(BucketDetails(base.h, apiName, "m1")) + 2

\* The same detail without a timestamp has been imported twice: the store
\* holds it twice, with two readings of the clock, and the last import added
\* one detail and skipped none.
C32_Witness ==
    /\ hist.merged = [Added |-> 1, Skipped |-> 0]
    /\ stats.totalRequests = 2
    /\ \E detail \in ZeroStampDetails :
           LET stored == BucketDetails(heap, "k1", "m1")
           IN  /\ Len(stored) = 2
               /\ stored[1].Timestamp # stored[2].Timestamp
               /\ \A i \in 1..2 :
                      /\ stored[i].Timestamp \in { Now(n) : n \in 0..1 }
                      /\ [stored[i] EXCEPT !.Timestamp = ZeroTime]
                             = [detail EXCEPT !.Tokens = NormaliseTokenStats(@)]

\* The counters of a store, by name: the four global ones and the request
\* and token totals of every identity and model.
Counters(st, h) ==
    LET view == StoreView(st, h)
        apis == view.apis
    IN  { <<<<"totalRequests", "", "">>, view.totalRequests>>,
          <<<<"successCount", "", "">>, view.successCount>>,
          <<<<"failureCount", "", "">>, view.failureCount>>,
          <<<<"totalTokens", "", "">>, view.totalTokens>> }
        \cup UNION { { <<<<"requests", a, "">>, apis[a].TotalRequests>>,
                       <<<<"tokens", a, "">>, apis[a].TotalTokens>> } : a \in DOMAIN apis }
        \cup UNION { UNION { { <<<<"model requests", a, m>>, apis[a].Models[m].TotalRequests>>,
                               <<<<"model tokens", a, m>>, apis[a].Models[m].TotalTokens>> } :
                             m \in DOMAIN apis[a].Models } : a \in DOMAIN apis }

\* The four bucket maps of a store.
BucketMaps(st, h) ==
    LET view == StoreView(st, h)
    IN  <<view.requestsByDay, view.requestsByHour, view.tokensByDay, view.tokensByHour>>

\* No counter and no bucket of the store before is missing or smaller
\* afterwards.
NoCounterDecreases(st, h, stAfter, hAfter) ==
    /\ \A c \in Counters(st, h) :
           \E d \in Counters(stAfter, hAfter) : d[1] = c[1] /\ d[2] >= c[2]
    /\ \A i \in 1..4 :
           \A k \in DOMAIN BucketMaps(st, h)[i] :
               /\ k \in DOMAIN BucketMaps(stAfter, hAfter)[i]
               /\ BucketMaps(stAfter, hAfter)[i][k] >= BucketMaps(st, h)[i][k]

\* Every detail of the store before is in the store afterwards, at its place.
DetailsKept(h, hAfter) ==
    LET apis == ApisView(h, ApisRef("s"))
    IN  \A a \in DOMAIN apis : \A m \in DOMAIN apis[a].Models :
            LET old == apis[a].Models[m].Details
                new == BucketDetails(hAfter, a, m)
            IN  Len(new) >= Len(old) /\ SubSeq(new, 1, Len(old)) = old

\* MergeSnapshot counts every detail under a named identity once, as added
\* or as skipped, and the request counters grow by the number added.
MergeCountsOnce(snapshot) ==
    LET merged == MergeSnapshotResult(stats, heap, clock, snapshot)
    IN  /\ merged.result.Added + merged.result.Skipped
               = Cardinality(NamedDetailSlots(snapshot))
        /\ merged.st.totalRequests = stats.totalRequests + merged.result.Added
        /\ merged.st.successCount + merged.st.failureCount
               = stats.successCount + stats.failureCount + merged.result.Added
        /\ DetailsKept(heap, merged.h)

\* C33: MergeSnapshot accounts for every detail once and preserves what the
\* store holds: Added + Skipped is the number of details under identities
\* that are not blank, TotalRequests and SuccessCount + FailureCount grow by
\* Added, no counter decreases, and every detail stored before the merge is
\* still stored after it.
C33_MergeAccountsOnce ==
    \A snapshot \in MergeImports :
        LET merged == MergeSnapshotResult(stats, heap, clock, snapshot)
        IN  /\ MergeCountsOnce(snapshot)
            /\ NoCounterDecreases(stats, heap, merged.st, merged.h)

\* The sum of the values of a map.
RECURSIVE SumMap(_)
SumMap(m) ==
    IF DOMAIN m = {} THEN 0
    ELSE LET k == CHOOSE x \in DOMAIN m : TRUE
         IN  m[k] + SumMap([x \in DOMAIN m \ {k} |-> m[x]])

\* The rollup levels of a store agree on a quantity: the global value is the
\* sum over the identities, each identity's value the sum over its models,
\* each model's value the sum over its details, and the day buckets and the
\* hour buckets each sum to the global value.
LevelsAgree(global, apis, ofAPI(_), ofModel(_), ofDetail(_), byDay, byHour) ==
    /\ global = SumMap([a \in DOMAIN apis |-> ofAPI(apis[a])])
    /\ \A a \in DOMAIN apis :
           /\ ofAPI(apis[a])
                  = SumMap([m \in DOMAIN apis[a].Models |-> ofModel(apis[a].Models[m])])
           /\ \A m \in DOMAIN apis[a].Models :
                  ofModel(apis[a].Models[m])
                      = SumMap([i \in 1..Len(apis[a].Models[m].Details) |->
                                    ofDetail(apis[a].Models[m].Details[i])])
    /\ SumMap(byDay) = global
    /\ SumMap(byHour) = global

\* The request counts of the store agree at every level.
RequestLevelsAgree(view) ==
    LET requests(x) == x.TotalRequests
        one(detail) == 1
    IN  LevelsAgree(view.totalRequests, view.apis, requests, requests, one,
                    view.requestsByDay, view.requestsByHour)

\* The token sums of the store agree at every level.
TokenLevelsAgree(view) ==
    LET tokens(x) == x.TotalTokens
        total(detail) == detail.Tokens.TotalTokens
    IN  LevelsAgree(view.totalTokens, view.apis, tokens, tokens, total,
                    view.tokensByDay, view.tokensByHour)

\* C34: after any sequence of Record and MergeSnapshot calls the rollup
\* levels of the store agree, for the request counts and for the token sums:
\* global = sum over identities = sum over models = sum over details = sum of
\* the day buckets = sum of the hour buckets.
C34_RollupLevelsAgree ==
    /\ RequestLevelsAgree(StoreView(stats, heap))
    /\ TokenLevelsAgree(StoreView(stats, heap))

(***************************************************************************)
(* Claims about the export and import of the statistics in memory mode     *)
(***************************************************************************)
\* The snapshot Snapshot returns for a store, as the export encodes it.
ExportOf(st, h) ==
    LET sn == SnapshotResult(st, h)
    IN  SnapshotView(sn.result, sn.heap)

\* The snapshot of a new store into which snapshot has been merged.
ReimportOf(snapshot) ==
    LET merged == MergeSnapshotResult(EmptyStats, EmptyHeap, clock, snapshot)
    IN  ExportOf(merged.st, merged.h)

\* Two snapshots have the same totals and the same detail lists.
SameUsage(a, b) ==
    /\ a.TotalRequests = b.TotalRequests
    /\ a.SuccessCount = b.SuccessCount
    /\ a.FailureCount = b.FailureCount
    /\ a.TotalTokens = b.TotalTokens
    /\ DOMAIN a.APIs = DOMAIN b.APIs
    /\ \A api \in DOMAIN a.APIs :
           /\ DOMAIN a.APIs[api].Models = DOMAIN b.APIs[api].Models
           /\ \A model \in DOMAIN a.APIs[api].Models :
                  a.APIs[api].Models[model].Details = b.APIs[api].Models[model].Details

\* C35: in memory mode export and import round-trip. For every store built
\* by Record calls, merging its snapshot into an empty store gives a store
\* whose snapshot has the same TotalRequests, SuccessCount, FailureCount,
\* TotalTokens and per-model detail lists.
C35_MemoryRoundTrip ==
    SameUsage(ReimportOf(ExportOf(stats, heap)), ExportOf(stats, heap))

(***************************************************************************)
(* Claims about the streamed export of the persistent store                *)
(***************************************************************************)
\* The names of a sequence of written objects are pairwise different.
KeysOnce(objs) == \A i, j \in 1..Len(objs) : i # j => objs[i].name # objs[j].name

\* C36: in the streamed export of the store each identity key is written at
\* most once in the apis object and each model key at most once within an
\* identity, whatever rows the store holds.
C36_ExportKeysOnce ==
    LET apis == ExportUsageStreamFromDB(rows).apis
    IN  /\ KeysOnce(apis)
        /\ \A i \in 1..Len(apis) : KeysOnce(apis[i].models)

\* The scopes of a written text, read from left to right: the scopes still
\* open (innermost last) and the scopes closed, in the order of their
\* closing, each with the number and the token sum of the details written
\* inside it and the totals written in it (-1: none). ok is false when a
\* closing bracket meets no open scope of its kind.
RECURSIVE ScanScopes(_, _, _)
ScanScopes(out, i, sc) ==
    IF i > Len(out) \/ ~sc.ok THEN sc
    ELSE LET x == out[i]
             depth == Len(sc.open)
             top == sc.open[depth]
             next ==
               CASE x.t = "open" ->
                      [sc EXCEPT !.open = Append(@, [scope |-> x.scope, name |-> x.name,
                                                     bracket |-> x.bracket, details |-> 0,
                                                     tokens |-> 0, total_requests |-> -1,
                                                     total_tokens |-> -1])]
                 [] x.t = "close" ->
                      IF depth = 0 \/ top.bracket # (IF x.bracket = "}" THEN "{" ELSE "[")
                      THEN [sc EXCEPT !.ok = FALSE]
                      ELSE [sc EXCEPT
                              !.closed = Append(@, top),
                              !.open = IF depth = 1 THEN <<>>
                                       ELSE [SubSeq(sc.open, 1, depth - 1) EXCEPT
                                               ![depth - 1].details = @ + top.details,
                                               ![depth - 1].tokens = @ + top.tokens]]
                 [] x.t = "detail" ->
                      IF depth = 0 THEN [sc EXCEPT !.ok = FALSE]
                      ELSE [sc EXCEPT !.open[depth].details = @ + 1,
                                      !.open[depth].tokens = @ + x.n]
                 [] x.t = "key" -> [sc EXCEPT !.key = x.name]
                 [] x.t = "value" ->
                      IF depth = 0 THEN [sc EXCEPT !.ok = FALSE]
                      ELSE IF sc.key = "total_requests"
                           THEN [sc EXCEPT !.open[depth].total_requests = x.n]
                           ELSE [sc EXCEPT !.open[depth].total_tokens = x.n]
                 [] OTHER -> sc
         IN  ScanScopes(out, i + 1, next)

Scopes(out) == ScanScopes(out, 1, [ok |-> TRUE, open |-> <<>>, closed |-> <<>>, key |-> ""])

\* The text is a balanced sequence of scopes: every scope opened is closed
\* once, inner scopes before outer ones, the envelope last, and the totals
\* written in a model or identity scope are the number and the token sum of
\* the details written inside it.
Balanced(out) ==
    LET sc == Scopes(out)
        n == Len(sc.closed)
    IN  /\ sc.ok
        /\ sc.open = <<>>
        /\ n >= 3
        /\ sc.closed[n].scope = "root"
        /\ sc.closed[n - 1].scope = "usage"
        /\ sc.closed[n - 2].scope = "apis"
        /\ out[Len(out)].t = "close"
        /\ \A i \in 1..n :
               sc.closed[i].scope \in {"model", "api"} =>
                   /\ sc.closed[i].total_requests = sc.closed[i].details
                   /\ sc.closed[i].total_tokens = sc.closed[i].tokens

\* C37: the streamed export is a balanced sequence of scopes for every
\* sequence of rows, also when the writing of a detail fails: every model and
\* identity scope opened is closed once, a model scope before its identity
\* scope, the envelope last, and the totals written when a scope closes are
\* the count and the token sum of the details written inside it.
C37_ExportScopesBalanced == exported # NoExport => Balanced(exported.out)

(***************************************************************************)
(* Claims about the capture of the streamed output                         *)
(***************************************************************************)
\* The paths CaptureStreamChunk reads content from, in their priority.
ContentPaths == <<"openai", "gemini", "delta", "block">>

\* The text a chunk contributes: that of the first path, in this order, that
\* holds one; none for a chunk that is empty or is not JSON.
RECURSIVE FirstText(_, _)
FirstText(chunk, i) ==
    IF i > Len(ContentPaths) THEN ""
    ELSE IF chunk[ContentPaths[i]] # "" THEN chunk[ContentPaths[i]]
    ELSE FirstText(chunk, i + 1)

ExtractedText(chunk) == IF chunk.empty \/ ~chunk.valid THEN "" ELSE FirstText(chunk, 1)

\* C38: CaptureStreamChunk appends to the captured output the text of at
\* most one path of the chunk, the first in the order choices.0.delta.content,
\* candidates.0.content.parts.0.text, delta.text, content_block.text that
\* holds text; a chunk that matches none or is not JSON leaves the output as
\* it is. Every call appends the text of its chunk (AppendOutput: its delta)
\* at the end, so the output is the concatenation of the extracted texts in
\* the order of arrival.
C38_FirstPathAppended ==
    [][ /\ capture'.op = "capture" =>
               /\ capture'.outputPayload
                      = capture.outputPayload \o ExtractedText(capture'.chunk)
               /\ ExtractedText(capture'.chunk)
                      \in { capture'.chunk[ContentPaths[i]] : i \in 1..4 } \cup {""}
        /\ capture'.op = "append" =>
               capture'.outputPayload = capture.outputPayload \o capture'.delta
      ]_capture

\* Three chunks have arrived: one with text at a later path only, one that
\* adds nothing and one with text at all four paths, of which the first is
\* taken.
C38_Witness ==
    /\ capture.calls = 3
    /\ capture.op = "capture"
    /\ capture.outputPayload = "CA"
    /\ capture.chunk = MkChunk(TRUE, "", "", "A", "B", "C", "D")

(***************************************************************************)
(* Claims about database.Init called again                                 *)
(***************************************************************************)
\* C39: after any sequence of Init calls, a call has returned a nil error
\* only if the database handle DB is set: once the first call has failed to
\* open the database, every later call reports an error too. (DB is written
\* by the first call only, so it is now what it was when each call returned.)
C39_NilOnlyWithDB ==
    \A i \in 1..Len(logHist.inits) :
        logHist.inits[i].result = "nil" => DB # NilDB

(***************************************************************************)
(* Claims about the batch and the streaming parsers                        *)
(***************************************************************************)
\* The batch parser of the provider of a streaming parser.
BatchParserOf(parser) ==
    CASE parser = "parseOpenAIStreamUsage" -> "parseOpenAIUsage"
      [] parser = "parseClaudeStreamUsage" -> "parseClaudeUsage"
      [] parser = "parseGeminiStreamUsage" -> "parseGeminiUsage"
      [] parser = "parseGeminiCLIStreamUsage" -> "parseGeminiCLIUsage"
      [] parser = "parseAntigravityStreamUsage" -> "parseAntigravityUsage"

\* The streaming parser's answer on a line that carries a JSON document is
\* the batch parser's answer on the document.
StreamAgreesWithBatch(parser) ==
    (parsed.parser = parser /\ parsed.line.valid)
        => parsed.result = ParserResult(BatchParserOf(parser), parsed.line)

\* C40: for each provider, on every JSON document, given bare or behind a
\* data: prefix (a line whose payload is the document), the streaming parser
\* reports found exactly when the batch parser finds a usage node, and both
\* return the same five token counts.
C40_BatchAndStreamAgree == \A parser \in StreamParsers : StreamAgreesWithBatch(parser)

====
